---- MODULE Spec2Model ----
(***************************************************************************)
(* Device staging store of the web-sionna front end (App.tsx): the staged  *)
(* list (tempDevices), the committed list (originalDevices), the handlers  *)
(* that edit them, and the device requests they send to the network        *)
(* service.  Device names are sequences of one-character strings so that   *)
(* the name generators can be computed as the code computes them.          *)
(* A device record carries id, name, role and active; the numeric fields   *)
(* (position, orientation, power) go through the same generic branches of  *)
(* the handlers and are not represented.                                   *)
(***************************************************************************)
EXTENDS Integers, Sequences, FiniteSets, TLC

\* ------------------------------------------------------------------ bounds
MaxDevices == 3      \* handleAddDevice is offered while the staged list is shorter
MaxTempId == 2       \* temporary ids are drawn from -MaxTempId .. -1
MaxServerId == 4     \* the service stops accepting creates after this id
MaxCalls == 5        \* handler calls by the user in one run
MaxPopoverCalls == 2 \* the popover is used among the first calls of a run only
MaxSelectionCalls == 4 \* handler calls in one run of the App with its Sidebar
MaxLoads == 4        \* image loads started in one run of a loader
MaxScene == 2        \* scene coordinates are drawn from -MaxScene .. MaxScene
MaxPointerCalls == 2 \* pointer events handled in one run of the scene view
MaxText == 3         \* longest text typed into an orientation field
MaxOrientationCalls == 1 \* orientation texts typed in one run
MaxManualCalls == 4  \* pointer events on the manual control buttons in one run
MaxSceneCalls == 3   \* handler calls in one run of the App with its scene view

\* --------------------------------------------------------------- constants
Roles == {"desired", "receiver", "jammer"}

\* names typed by the user into a name field
NameInputs == {<<"u", "a", "v">>}

VARIABLES
    server,           \* device records held by the network service
    nextId,           \* next id the service assigns (SERIAL primary key)
    tempDevices,      \* App state: staged list
    originalDevices,  \* App state: committed list
    apiStatus,        \* App state: 'disconnected' | 'connected' | 'error'
    loading,          \* App state
    error,            \* App state: which message setError last stored, or "none"
    hasTempDevices,   \* App state
    pc,               \* which await the App is suspended at
    batch,            \* handleApply: newDevices followed by devicesToUpdate
    idx,              \* handleApply: position of the request in flight
    delId,            \* handleDeleteDevice: the id it was last called with
    lastOp,           \* history: the handler step taken last
    netLog,           \* history: requests sent since the last handler call
    tempCreated,      \* history: per staged entry, successful creates of it
    calls,            \* history: handler calls made by the user so far
    selectedReceiverIds,    \* Sidebar state (<<>> while the Sidebar is not mounted)
    appSelectedReceiverIds, \* App state: the ids last passed to the App
    impl,             \* image loader mounted last: "none", "viewer" or "hook"
    mounted,          \* the component that owns the loader is mounted
    imageUrl,         \* loader state: "null", "scene", "fallbackBlob", "static"
    isLoading,        \* loader state
    imgError,         \* loader state: which message setError last stored, or "null"
    usingFallback,    \* loader state
    retryCount,       \* loader state
    manualRetryMode,  \* loader state
    prevImageUrlRef,  \* ref: the object URL to revoke, or "null"
    currentCtl,       \* id of the load whose AbortController the cleanup aborts
    requests,         \* image loads in flight
    timers,           \* pending setTimeout retries: the retryCount each closes over
    imgEl,            \* the <img> element: "none", "pending" (no event yet), "settled"
    loads,            \* history: image loads started so far
    answered,         \* history: ids of the loads whose response was handled
    failures,         \* history: failed loads in a row, cancelled ones not counted
    lastImg,          \* history: the loader step taken last
    lastReq,          \* history: id of the load that step completed, or 0
    urlCreated,       \* history: that step called URL.createObjectURL
    imageNaturalSize, \* SceneViewer state: natural size of the image, or "null"
    renderedSize,     \* offsetWidth and offsetHeight of the <img> element
    scenePoint,       \* a scene position (x, y), or "null"
    imagePoint,       \* what sceneToImageCoords returned for it
    backPoint,        \* what imageToSceneCoords returned for imagePoint
    coordsPc,         \* "idle", "input", "image" or "scene"
    propDevices,      \* SceneViewer prop: the devices with their scene positions
    hoveredDeviceId,  \* SceneViewer state: <<id>>, or <<>> for null
    cursorStyle,      \* SceneViewer state
    mousePosition,    \* the position last given to the coordinate display, or Null
    showPopover,      \* SceneViewer state
    isEditing,        \* SceneViewer state
    editingDeviceId,  \* SceneViewer state: <<id>>, or <<>> for null
    popoverPosition,  \* SceneViewer state: where the popover is, or Null
    pointerAt,        \* history: the pointer position of the last pointer event, or Null
    lastPtr,          \* history: the pointer handler called last
    ptrCalls,         \* history: pointer events handled so far
    orientationInputs, \* Sidebar state: per axis, the text of the orientation field
    orientation,      \* per axis, the staged orientation of the device
    typed,            \* history: the axis and text of the last input, or Null
    orientationCalls, \* history: orientation texts typed so far
    manualIntervalRef, \* ref: id of the interval armed last, or 0 for null
    manualTimers,     \* live intervals: id and the direction each closes over
    timerSeq,         \* ids given out by setInterval so far
    manualDirection,  \* App state: a direction, or "null"
    overButton,       \* the manual control button under the pointer, or "none"
    lastManual,       \* history: "none", "enter", "down", "tick", "up" or "leave"
    command,          \* history: what the last step gave to onManualControl, or "none"
    ticked,           \* history: id of the interval whose callback the last step ran, or 0
    pressed,          \* history: direction of the press not yet ended, or "none"
    manualCalls       \* history: pointer events on the buttons so far

\* the device staging store and the network service
appVars == <<server, nextId, tempDevices, originalDevices, apiStatus, loading,
             error, hasTempDevices, pc, batch, idx, delId, lastOp, netLog,
             tempCreated, calls>>

\* the receiver selection
selectionVars == <<selectedReceiverIds, appSelectedReceiverIds>>

\* the state the image loader keeps with React
loaderState == <<imageUrl, isLoading, imgError, usingFallback, retryCount,
                 manualRetryMode>>

\* the scene image loader
imageVars == <<impl, mounted, loaderState, prevImageUrlRef, currentCtl, requests,
               timers, imgEl, loads, answered, failures, lastImg, lastReq,
               urlCreated>>

\* the coordinate mapping of the scene view
coordVars == <<imageNaturalSize, renderedSize, scenePoint, imagePoint, backPoint,
               coordsPc>>

\* the pointer on the scene image and the popover it opens
pointerVars == <<propDevices, hoveredDeviceId, cursorStyle, mousePosition,
                 showPopover, isEditing, editingDeviceId, popoverPosition,
                 pointerAt, lastPtr, ptrCalls>>

\* the orientation fields of one device
orientationVars == <<orientationInputs, orientation, typed, orientationCalls>>

\* the manual control buttons
manualVars == <<manualIntervalRef, manualTimers, timerSeq, manualDirection,
                overButton, lastManual, command, ticked, pressed, manualCalls>>

\* the device controls of the Sidebar
controlVars == <<orientationVars, manualVars>>

\* the scene view and the device controls
sceneVars == <<imageVars, coordVars, pointerVars, controlVars>>

\* what the staging handlers do not touch
viewVars == <<selectionVars, sceneVars>>

vars == <<appVars, viewVars>>

\* ------------------------------------------------------------ text helpers
DigitChars == <<"0", "1", "2", "3", "4", "5", "6", "7", "8", "9">>

IsDigit(c) == \E i \in 1..10 : DigitChars[i] = c

DigitVal(c) == (CHOOSE i \in 1..10 : DigitChars[i] = c) - 1

RECURSIVE ToStr(_)
\* template literal `${n}` for a natural number
ToStr(n) ==
    IF n < 10 THEN <<DigitChars[n + 1]>>
    ELSE ToStr(n \div 10) \o <<DigitChars[(n % 10) + 1]>>

RECURSIVE ParseDigits(_)
\* parseInt(s, 10) of a non-empty string of digits
ParseDigits(s) ==
    IF Len(s) = 0 THEN 0
    ELSE ParseDigits(SubSeq(s, 1, Len(s) - 1)) * 10 + DigitVal(s[Len(s)])

StartsWith(s, p) == Len(s) >= Len(p) /\ SubSeq(s, 1, Len(p)) = p

AllDigits(s) == \A i \in 1..Len(s) : IsDigit(s[i])

Zeros(n) == [i \in 1..n |-> 0]

\* ------------------------------------------------------------ device lists
Device(id, name, role, active) ==
    [id |-> id, name |-> name, role |-> role, active |-> active]

\* backendData of handleApply / the popover: the device without its id
Payload(d) == [name |-> d.name, role |-> d.role, active |-> d.active]

Range(s) == {s[i] : i \in 1..Len(s)}

Ids(list) == {list[i].id : i \in 1..Len(list)}

Names(list) == {list[i].name : i \in 1..Len(list)}

\* list.filter((device) => device.id !== id)
WithoutId(list, id) == SelectSeq(list, LAMBDA d : d.id # id)

\* the entries of a sequence parallel to list that the same filter keeps
ParallelWithoutId(marks, list, id) ==
    LET keep == SelectSeq([i \in 1..Len(list) |-> i], LAMBDA i : list[i].id # id)
    IN  [k \in 1..Len(keep) |-> marks[keep[k]]]

RECURSIVE CountWhere(_, _, _)
CountWhere(list, role, i) ==
    IF i > Len(list) THEN 0
    ELSE (IF list[i].active /\ list[i].role = role THEN 1 ELSE 0)
         + CountWhere(list, role, i + 1)

\* countActiveDevices without its test of d.active
countActiveDevices_IgnoresActive(deviceList) ==
    [activeTx |-> Cardinality({i \in 1..Len(deviceList) : deviceList[i].role = "desired"}),
     activeRx |-> Cardinality({i \in 1..Len(deviceList) : deviceList[i].role = "receiver"})]

countActiveDevices(deviceList) ==
    [activeTx |-> CountWhere(deviceList, "desired", 1),
     activeRx |-> CountWhere(deviceList, "receiver", 1)]

\* ---------------------------------------------------------- name generation
getPrefix(role) ==
    CASE role = "desired" -> <<"t", "x">>
      [] role = "receiver" -> <<"r", "x">>
      [] role = "jammer" -> <<"j", "a", "m">>
      [] OTHER -> <<"d", "e", "v", "i", "c", "e">>

RECURSIVE FirstFreeSuffix(_, _, _)
\* while (names.includes(`${prefix}${n}`)) n++
FirstFreeSuffix(names, prefix, n) ==
    IF (prefix \o ToStr(n)) \in names
    THEN FirstFreeSuffix(names, prefix, n + 1)
    ELSE n

\* /^(tx|rx|jam)\d+$/.test(name)
IsDefaultNamingFormat(name) ==
    \E p \in {<<"t", "x">>, <<"r", "x">>, <<"j", "a", "m">>} :
        /\ StartsWith(name, p)
        /\ Len(name) > Len(p)
        /\ AllDigits(SubSeq(name, Len(p) + 1, Len(name)))

RECURSIVE DigitTailStart(_, _)
\* first index of the longest run of digits that ends the string
DigitTailStart(s, i) ==
    IF i >= 1 /\ IsDigit(s[i]) THEN DigitTailStart(s, i - 1) ELSE i + 1

\* name.match(/-(\d+)$/): the number after the last hyphen, 0 when no match
HyphenNumber(name) ==
    LET k == DigitTailStart(name, Len(name))
    IN  IF k <= Len(name) /\ k >= 2 /\ name[k - 1] = "-"
        THEN ParseDigits(SubSeq(name, k, Len(name)))
        ELSE 0

RECURSIVE MaxHyphenNumber(_, _, _, _)
\* the forEach of handleDeviceChange that computes maxNum
MaxHyphenNumber(list, id, newPrefix, i) ==
    IF i > Len(list) THEN 0
    ELSE LET rest == MaxHyphenNumber(list, id, newPrefix, i + 1)
             here == IF list[i].id # id /\ StartsWith(list[i].name, newPrefix)
                     THEN HyphenNumber(list[i].name) ELSE 0
         IN  IF here > rest THEN here ELSE rest

\* the name handleDeviceChange gives device id when its role becomes newRole
RoleChangeName(prev, id, newRole) ==
    LET newPrefix == getPrefix(newRole)
        newNumber == MaxHyphenNumber(prev, id, newPrefix, 1) + 1
        otherNames == Names(WithoutId(prev, id))
    IN  newPrefix \o ToStr(FirstFreeSuffix(otherNames, newPrefix, newNumber))

\* ------------------------------------------------- network service (devices)
\* POST /devices: the name is unique, the id is the next serial value
ServerAccepts(data) == nextId <= MaxServerId /\ data.name \notin Names(server)

ServerCreate(data) ==
    Append(server, Device(nextId, data.name, data.role, data.active))

\* PUT /devices/{id}
ServerAcceptsUpdate(id, data) ==
    id \in Ids(server) /\ data.name \notin Names(WithoutId(server, id))

ServerUpdate(id, data) ==
    [i \in 1..Len(server) |->
        IF server[i].id = id
        THEN Device(id, data.name, data.role, data.active)
        ELSE server[i]]

\* DELETE /devices/{id}
ServerAcceptsDelete(id) == id \in Ids(server)

ServerDelete(id) == WithoutId(server, id)

\* the records the service holds when the App is constructed
InitialServer ==
    <<Device(1, <<"r", "x", "1">>, "receiver", TRUE),
      Device(2, <<"t", "x", "1">>, "desired", TRUE)>>

\* ------------------------------------------------------------------- App
\* defaultDevices of fetchDevices' catch block; the four CJK characters of the
\* name ("test device") are written T e s t, the rest of the name as in the code
defaultDevices ==
    [i \in 1..3 |->
        Device(-i, <<"T", "e", "s", "t", " ">> \o ToStr(i),
               <<"desired", "receiver", "jammer">>[i], TRUE)]

Req(op, id, name) == [op |-> op, id |-> id, name |-> name]

BatchReq(b) ==
    IF b.kind = "create" THEN Req("create", b.dev.id, b.dev.name)
    ELSE Req("update", b.dev.id, b.dev.name)

InitApp ==
    /\ server = InitialServer
    /\ nextId = 3
    /\ tempDevices = <<>>
    /\ originalDevices = <<>>
    /\ apiStatus = "disconnected"
    /\ loading = TRUE
    /\ error = "none"
    /\ hasTempDevices = FALSE
    /\ pc = "fetch"
    /\ batch = <<>>
    /\ idx = 0
    /\ delId = 0
    /\ lastOp = "mount"
    /\ netLog = <<Req("fetch", 0, <<>>)>>
    /\ tempCreated = <<>>
    /\ calls = 0

\* the App renders the loading placeholder: no Sidebar is mounted yet
InitSidebar ==
    /\ selectedReceiverIds = <<>>
    /\ appSelectedReceiverIds = <<>>

\* no component with an image loader is mounted yet
InitLoader ==
    /\ impl = "none"
    /\ mounted = FALSE
    /\ imageUrl = "null"
    /\ isLoading = TRUE
    /\ imgError = "null"
    /\ usingFallback = FALSE
    /\ retryCount = 0
    /\ manualRetryMode = FALSE
    /\ prevImageUrlRef = "null"
    /\ currentCtl = 0
    /\ requests = <<>>
    /\ timers = <<>>
    /\ imgEl = "none"
    /\ loads = 0
    /\ answered = {}
    /\ failures = 0
    /\ lastImg = "none"
    /\ lastReq = 0
    /\ urlCreated = FALSE

\* the null of a size or a position
Null == [null |-> TRUE]

\* no image is shown yet
InitCoords ==
    /\ imageNaturalSize = Null
    /\ renderedSize = Null
    /\ scenePoint = Null
    /\ imagePoint = Null
    /\ backPoint = Null
    /\ coordsPc = "idle"

\* the pointer has not been over the image, the popover is closed
InitPointer ==
    /\ propDevices = <<>>
    /\ hoveredDeviceId = <<>>
    /\ cursorStyle = "crosshair"
    /\ mousePosition = Null
    /\ showPopover = FALSE
    /\ isEditing = FALSE
    /\ editingDeviceId = <<>>
    /\ popoverPosition = Null
    /\ pointerAt = Null
    /\ lastPtr = "none"
    /\ ptrCalls = 0

Axes == {"x", "y", "z"}

\* a number as a fraction in lowest terms; NaN has the denominator 0
NaN == <<0, 0>>

\* the fields show '0' for a device whose orientation is 0
InitOrientation ==
    /\ orientationInputs = [axis \in Axes |-> <<"0">>]
    /\ orientation = [axis \in Axes |-> [value |-> <<0, 1>>, pi |-> FALSE]]
    /\ typed = Null
    /\ orientationCalls = 0

\* no button is pressed, no interval is armed
InitManual ==
    /\ manualIntervalRef = 0
    /\ manualTimers = {}
    /\ timerSeq = 0
    /\ manualDirection = "null"
    /\ overButton = "none"
    /\ lastManual = "none"
    /\ command = "none"
    /\ ticked = 0
    /\ pressed = "none"
    /\ manualCalls = 0

InitControls == InitOrientation /\ InitManual

Init == InitApp /\ InitSidebar /\ InitLoader /\ InitCoords /\ InitPointer /\ InitControls

\* fetchDevices up to its await (called on mount and by refreshDeviceData)
StartFetch ==
    /\ loading' = TRUE
    /\ apiStatus' = "disconnected"
    /\ pc' = "fetch"

\* fetchDevices: getDevices resolved
FetchOk ==
    /\ pc = "fetch"
    /\ tempDevices' = server
    /\ originalDevices' = server
    /\ tempCreated' = Zeros(Len(server))
    /\ error' = "none"
    /\ apiStatus' = "connected"
    /\ loading' = FALSE
    /\ pc' = "idle"
    /\ lastOp' = "fetch_ok"
    /\ UNCHANGED <<server, nextId, hasTempDevices, batch, idx, delId, netLog>>
    /\ UNCHANGED calls

\* fetchDevices: getDevices rejected
FetchFail ==
    /\ pc = "fetch"
    /\ error' = "fetch"
    /\ apiStatus' = "error"
    /\ tempDevices' = defaultDevices
    /\ originalDevices' = defaultDevices
    /\ tempCreated' = Zeros(3)
    /\ loading' = FALSE
    /\ pc' = "idle"
    /\ lastOp' = "fetch_fail"
    /\ UNCHANGED <<server, nextId, hasTempDevices, batch, idx, delId, netLog>>
    /\ UNCHANGED calls

\* the Sidebar is rendered, and its handlers can be called, only while not loading
Idle == pc = "idle" /\ ~loading

\* a handler call by the user
Call == calls < MaxCalls /\ calls' = calls + 1

AddedDevice(tempId) ==
    Device(tempId,
           getPrefix("receiver")
               \o ToStr(FirstFreeSuffix(Names(tempDevices), getPrefix("receiver"), 1)),
           "receiver", TRUE)

handleAddDevice(tempId) ==
    /\ Idle
    /\ Call
    /\ Len(tempDevices) < MaxDevices
    /\ tempDevices' = Append(tempDevices, AddedDevice(tempId))
    /\ tempCreated' = Append(tempCreated, 0)
    /\ hasTempDevices' = TRUE
    /\ lastOp' = "add"
    /\ netLog' = <<>>
    /\ UNCHANGED <<server, nextId, originalDevices, apiStatus, loading, error,
                   pc, batch, idx, delId>>

\* a role change renames the device whatever its name and id are
ChangedDevices_AlwaysRenames(prev, id, field, value) ==
    IF field = "role"
    THEN [i \in 1..Len(prev) |->
             IF prev[i].id = id
             THEN [prev[i] EXCEPT !.role = value,
                                  !.name = RoleChangeName(prev, id, value)]
             ELSE prev[i]]
    ELSE [i \in 1..Len(prev) |->
             IF prev[i].id = id
             THEN [prev[i] EXCEPT ![field] = value]
             ELSE prev[i]]

\* the updater handleDeviceChange passes to setTempDevices
ChangedDevices(prev, id, field, value) ==
    IF field = "role" /\ id \in Ids(prev)
    THEN LET deviceToUpdate == prev[CHOOSE i \in 1..Len(prev) :
                                       /\ prev[i].id = id
                                       /\ \A j \in 1..(i - 1) : prev[j].id # id]
         IN  IF IsDefaultNamingFormat(deviceToUpdate.name) \/ deviceToUpdate.id < 0
             THEN LET uniqueName == RoleChangeName(prev, id, value)
                  IN  [i \in 1..Len(prev) |->
                          IF prev[i].id = id
                          THEN [prev[i] EXCEPT !.role = value, !.name = uniqueName]
                          ELSE prev[i]]
             ELSE [i \in 1..Len(prev) |->
                      IF prev[i].id = id
                      THEN [prev[i] EXCEPT !.role = value]
                      ELSE prev[i]]
    ELSE [i \in 1..Len(prev) |->
             IF prev[i].id = id
             THEN [prev[i] EXCEPT ![field] = value]
             ELSE prev[i]]

handleDeviceChange(id, field, value) ==
    /\ Idle
    /\ Call
    /\ tempDevices' = ChangedDevices(tempDevices, id, field, value)
    /\ hasTempDevices' = TRUE
    /\ lastOp' = "change"
    /\ netLog' = <<>>
    /\ UNCHANGED <<server, nextId, originalDevices, apiStatus, loading, error,
                   pc, batch, idx, delId, tempCreated>>

\* only the flags reset, the staged list kept
handleCancel_KeepsStaged ==
    /\ pc = "idle" /\ ~loading
    /\ calls < MaxCalls /\ calls' = calls + 1
    /\ hasTempDevices' = FALSE
    /\ error' = "none"
    /\ lastOp' = "cancel"
    /\ netLog' = <<>>
    /\ UNCHANGED <<server, nextId, tempDevices, originalDevices, apiStatus,
                   loading, pc, batch, idx, delId, tempCreated>>

handleCancel ==
    /\ Idle
    /\ Call
    /\ tempDevices' = originalDevices
    /\ tempCreated' = Zeros(Len(originalDevices))
    /\ hasTempDevices' = FALSE
    /\ error' = "none"
    /\ lastOp' = "cancel"
    /\ netLog' = <<>>
    /\ UNCHANGED <<server, nextId, originalDevices, apiStatus, loading, pc,
                   batch, idx, delId>>

\* ------------------------------------------------------ handleDeleteDevice
\* the check made on the list as it is, the device not filtered out
DeleteAllowed_Unfiltered(id) ==
    LET future == countActiveDevices(tempDevices)
    IN  ~(future.activeTx < 1 \/ future.activeRx < 1)

\* the check handleDeleteDevice makes before it deletes a persisted device
DeleteAllowed(id) ==
    LET devicesAfterDelete == WithoutId(tempDevices, id)
        future == countActiveDevices(devicesAfterDelete)
    IN  ~(future.activeTx < 1 \/ future.activeRx < 1)

\* the device dropped from the committed list as well
DeleteTemporary_BothLists(id) ==
    /\ pc = "idle" /\ ~loading
    /\ calls < MaxCalls /\ calls' = calls + 1
    /\ id \in Ids(tempDevices)
    /\ id < 0
    /\ tempDevices' = WithoutId(tempDevices, id)
    /\ tempCreated' = ParallelWithoutId(tempCreated, tempDevices, id)
    /\ originalDevices' = WithoutId(originalDevices, id)
    /\ hasTempDevices' = TRUE
    /\ lastOp' = "remove_temp"
    /\ netLog' = <<>>
    /\ UNCHANGED <<server, nextId, apiStatus, loading, error, pc, batch, idx,
                   delId>>

\* id < 0: the device is dropped from the staged list only
DeleteTemporary(id) ==
    /\ Idle
    /\ Call
    /\ id \in Ids(tempDevices)
    /\ id < 0
    /\ tempDevices' = WithoutId(tempDevices, id)
    /\ tempCreated' = ParallelWithoutId(tempCreated, tempDevices, id)
    /\ hasTempDevices' = TRUE
    /\ lastOp' = "remove_temp"
    /\ netLog' = <<>>
    /\ UNCHANGED <<server, nextId, originalDevices, apiStatus, loading, error,
                   pc, batch, idx, delId>>

\* the alert branch
DeleteRejected(id) ==
    /\ Idle
    /\ Call
    /\ id \in Ids(tempDevices)
    /\ ~(id < 0)
    /\ ~DeleteAllowed(id)
    /\ lastOp' = "remove_invalid"
    /\ netLog' = <<>>
    /\ delId' = id
    /\ UNCHANGED <<server, nextId, tempDevices, originalDevices, apiStatus,
                   loading, error, hasTempDevices, pc, batch, idx, tempCreated>>

DeleteNotConnected(id) ==
    /\ Idle
    /\ Call
    /\ id \in Ids(tempDevices)
    /\ ~(id < 0)
    /\ DeleteAllowed(id)
    /\ apiStatus # "connected"
    /\ error' = "delete_status"
    /\ lastOp' = "remove_notconnected"
    /\ netLog' = <<>>
    /\ delId' = id
    /\ UNCHANGED <<server, nextId, tempDevices, originalDevices, apiStatus,
                   loading, hasTempDevices, pc, batch, idx, tempCreated>>

\* window.confirm answered; on yes the delete request is sent
DeleteConfirm(id, yes) ==
    /\ Idle
    /\ Call
    /\ id \in Ids(tempDevices)
    /\ ~(id < 0)
    /\ DeleteAllowed(id)
    /\ apiStatus = "connected"
    /\ delId' = id
    /\ IF yes
       THEN /\ loading' = TRUE
            /\ error' = "none"
            /\ pc' = "delete"
            /\ netLog' = <<Req("delete", id, <<>>)>>
            /\ lastOp' = "remove_sent"
       ELSE /\ netLog' = <<>>
            /\ lastOp' = "remove_declined"
            /\ UNCHANGED <<loading, error, pc>>
    /\ UNCHANGED <<server, nextId, tempDevices, originalDevices, apiStatus,
                   hasTempDevices, batch, idx, tempCreated>>

\* deleteDevice resolved
DeleteOk ==
    /\ pc = "delete"
    /\ ServerAcceptsDelete(delId)
    /\ server' = ServerDelete(delId)
    /\ tempDevices' = WithoutId(tempDevices, delId)
    /\ tempCreated' = ParallelWithoutId(tempCreated, tempDevices, delId)
    /\ originalDevices' = WithoutId(originalDevices, delId)
    /\ hasTempDevices' = (tempDevices # originalDevices)
    /\ loading' = FALSE
    /\ pc' = "idle"
    /\ lastOp' = "remove_ok"
    /\ UNCHANGED <<nextId, apiStatus, error, batch, idx, delId, netLog>>
    /\ UNCHANGED calls

\* the device dropped from both lists although the request failed
DeleteFail_DropsAnyway ==
    /\ pc = "delete"
    /\ error' = "delete"
    /\ tempDevices' = WithoutId(tempDevices, delId)
    /\ tempCreated' = ParallelWithoutId(tempCreated, tempDevices, delId)
    /\ originalDevices' = WithoutId(originalDevices, delId)
    /\ loading' = FALSE
    /\ pc' = "idle"
    /\ lastOp' = "remove_failed"
    /\ UNCHANGED <<server, nextId, apiStatus, hasTempDevices, batch, idx, delId,
                   netLog, calls>>

\* deleteDevice rejected
DeleteFail ==
    /\ pc = "delete"
    /\ error' = "delete"
    /\ loading' = FALSE
    /\ pc' = "idle"
    /\ lastOp' = "remove_failed"
    /\ UNCHANGED <<server, nextId, tempDevices, originalDevices, apiStatus,
                   hasTempDevices, batch, idx, delId, netLog, tempCreated>>
    /\ UNCHANGED calls

\* -------------------------------------------------------------- handleApply
\* the check handleApply makes first
ApplyAllowed ==
    LET current == countActiveDevices(tempDevices)
    IN  ~(current.activeTx < 1 \/ current.activeRx < 1)

\* tempDevices.filter((device) => device.id < 0), with the staged positions
newDevices ==
    LET at == SelectSeq([i \in 1..Len(tempDevices) |-> i],
                        LAMBDA i : tempDevices[i].id < 0)
    IN  [k \in 1..Len(at) |->
            [kind |-> "create", dev |-> tempDevices[at[k]], pos |-> at[k]]]

\* originalDevices.find((org) => org.id === id), as the set of what it can return
FindOriginal(id) ==
    {originalDevices[i] : i \in {i \in 1..Len(originalDevices) :
        /\ originalDevices[i].id = id
        /\ \A j \in 1..(i - 1) : originalDevices[j].id # id}}

\* the comparison with the committed entry left out
NeedsUpdate_Always(tempDevice) ==
    IF tempDevice.id <= 0 THEN FALSE
    ELSE TRUE

NeedsUpdate(tempDevice) ==
    IF tempDevice.id <= 0 THEN FALSE
    ELSE \/ FindOriginal(tempDevice.id) = {}
         \/ \E originalDevice \in FindOriginal(tempDevice.id) :
                tempDevice # originalDevice

devicesToUpdate ==
    LET at == SelectSeq([i \in 1..Len(tempDevices) |-> i],
                        LAMBDA i : NeedsUpdate(tempDevices[i]))
    IN  [k \in 1..Len(at) |->
            [kind |-> "update", dev |-> tempDevices[at[k]], pos |-> at[k]]]

\* the alert without the return: the batch is sent all the same
ApplyRejected_NoReturn ==
    /\ pc = "idle" /\ ~loading
    /\ calls < MaxCalls /\ calls' = calls + 1
    /\ ~ApplyAllowed
    /\ apiStatus = "connected"
    /\ Len(newDevices \o devicesToUpdate) > 0
    /\ loading' = TRUE
    /\ error' = "none"
    /\ batch' = newDevices \o devicesToUpdate
    /\ idx' = 1
    /\ pc' = "apply"
    /\ netLog' = <<BatchReq((newDevices \o devicesToUpdate)[1])>>
    /\ lastOp' = "apply_invalid"
    /\ UNCHANGED <<server, nextId, tempDevices, originalDevices, apiStatus,
                   hasTempDevices, delId, tempCreated>>

ApplyRejected ==
    /\ Idle
    /\ Call
    /\ ~ApplyAllowed
    /\ lastOp' = "apply_invalid"
    /\ netLog' = <<>>
    /\ UNCHANGED <<server, nextId, tempDevices, originalDevices, apiStatus,
                   loading, error, hasTempDevices, pc, batch, idx, delId,
                   tempCreated>>

\* the check of apiStatus left out: the batch is sent whatever the status
ApplyNotConnected_Sends ==
    /\ Idle
    /\ Call
    /\ ApplyAllowed
    /\ apiStatus # "connected"
    /\ ~(Len(newDevices) = 0 /\ Len(devicesToUpdate) = 0)
    /\ loading' = TRUE
    /\ error' = "none"
    /\ batch' = newDevices \o devicesToUpdate
    /\ idx' = 1
    /\ pc' = "apply"
    /\ netLog' = <<BatchReq((newDevices \o devicesToUpdate)[1])>>
    /\ lastOp' = "apply_started"
    /\ UNCHANGED <<server, nextId, tempDevices, originalDevices, apiStatus,
                   hasTempDevices, delId, tempCreated>>

ApplyNotConnected ==
    /\ Idle
    /\ Call
    /\ ApplyAllowed
    /\ apiStatus # "connected"
    /\ error' = "apply_status"
    /\ lastOp' = "apply_notconnected"
    /\ netLog' = <<>>
    /\ UNCHANGED <<server, nextId, tempDevices, originalDevices, apiStatus,
                   loading, hasTempDevices, pc, batch, idx, delId, tempCreated>>

\* nothing to create and nothing to update
ApplyNoChange ==
    /\ Idle
    /\ Call
    /\ ApplyAllowed
    /\ apiStatus = "connected"
    /\ Len(newDevices) = 0 /\ Len(devicesToUpdate) = 0
    /\ error' = "none"
    /\ lastOp' = "apply_nochange"
    /\ netLog' = <<>>
    /\ UNCHANGED <<server, nextId, tempDevices, originalDevices, apiStatus,
                   loading, hasTempDevices, pc, batch, idx, delId, tempCreated>>

\* the loops in the other order: the updates are sent first
ApplyStart_UpdatesFirst ==
    /\ Idle
    /\ Call
    /\ ApplyAllowed
    /\ apiStatus = "connected"
    /\ ~(Len(newDevices) = 0 /\ Len(devicesToUpdate) = 0)
    /\ loading' = TRUE
    /\ error' = "none"
    /\ batch' = devicesToUpdate \o newDevices
    /\ idx' = 1
    /\ pc' = "apply"
    /\ netLog' = <<BatchReq((devicesToUpdate \o newDevices)[1])>>
    /\ lastOp' = "apply_started"
    /\ UNCHANGED <<server, nextId, tempDevices, originalDevices, apiStatus,
                   hasTempDevices, delId, tempCreated>>

\* the first request of the batch is sent
ApplyStart ==
    /\ Idle
    /\ Call
    /\ ApplyAllowed
    /\ apiStatus = "connected"
    /\ ~(Len(newDevices) = 0 /\ Len(devicesToUpdate) = 0)
    /\ loading' = TRUE
    /\ error' = "none"
    /\ batch' = newDevices \o devicesToUpdate
    /\ idx' = 1
    /\ pc' = "apply"
    /\ netLog' = <<BatchReq((newDevices \o devicesToUpdate)[1])>>
    /\ lastOp' = "apply_started"
    /\ UNCHANGED <<server, nextId, tempDevices, originalDevices, apiStatus,
                   hasTempDevices, delId, tempCreated>>

\* what follows a resolved createDevice / updateDevice: the next request of the
\* batch, or getDevices after the last one
AfterRequest ==
    IF idx < Len(batch)
    THEN /\ idx' = idx + 1
         /\ netLog' = Append(netLog, BatchReq(batch[idx + 1]))
         /\ pc' = "apply"
    ELSE /\ idx' = idx
         /\ netLog' = Append(netLog, Req("fetch", 0, <<>>))
         /\ pc' = "apply_fetch"

\* createDevice resolved
ApplyCreateOk ==
    /\ pc = "apply"
    /\ batch[idx].kind = "create"
    /\ ServerAccepts(Payload(batch[idx].dev))
    /\ server' = ServerCreate(Payload(batch[idx].dev))
    /\ nextId' = nextId + 1
    /\ tempCreated' = [tempCreated EXCEPT ![batch[idx].pos] = @ + 1]
    /\ AfterRequest
    /\ lastOp' = "apply_create_ok"
    /\ UNCHANGED <<tempDevices, originalDevices, apiStatus, loading, error,
                   hasTempDevices, batch, delId>>
    /\ UNCHANGED calls

\* updateDevice resolved
ApplyUpdateOk ==
    /\ pc = "apply"
    /\ batch[idx].kind = "update"
    /\ ServerAcceptsUpdate(batch[idx].dev.id, Payload(batch[idx].dev))
    /\ server' = ServerUpdate(batch[idx].dev.id, Payload(batch[idx].dev))
    /\ AfterRequest
    /\ lastOp' = "apply_update_ok"
    /\ UNCHANGED <<nextId, tempDevices, originalDevices, apiStatus, loading,
                   error, hasTempDevices, batch, delId, tempCreated>>
    /\ UNCHANGED calls

\* the catch block of handleApply
ApplyCatch ==
    /\ error' = "apply"
    /\ loading' = FALSE
    /\ pc' = "idle"
    /\ UNCHANGED <<server, nextId, tempDevices, originalDevices, apiStatus,
                   hasTempDevices, batch, idx, delId, netLog, tempCreated>>
    /\ UNCHANGED calls

\* the failure caught inside the loop: the batch goes on
ApplyRequestFail_GoesOn ==
    /\ pc = "apply"
    /\ idx < Len(batch)
    /\ lastOp' = "apply_failed"
    /\ error' = "apply"
    /\ idx' = idx + 1
    /\ netLog' = Append(netLog, BatchReq(batch[idx + 1]))
    /\ UNCHANGED <<server, nextId, tempDevices, originalDevices, apiStatus,
                   loading, hasTempDevices, pc, batch, delId, tempCreated, calls>>

\* createDevice or updateDevice rejected
ApplyRequestFail ==
    /\ pc = "apply"
    /\ lastOp' = "apply_failed"
    /\ ApplyCatch

\* the lists patched locally instead of replaced by the fetched list
ApplyFetchOk_LocalPatch ==
    /\ pc = "apply_fetch"
    /\ originalDevices' = tempDevices
    /\ hasTempDevices' = FALSE
    /\ loading' = FALSE
    /\ pc' = "idle"
    /\ lastOp' = "apply_done"
    /\ UNCHANGED <<server, nextId, tempDevices, apiStatus, error, batch, idx,
                   delId, netLog, tempCreated, calls>>

\* getDevices resolved: both lists are replaced by the service's list
ApplyFetchOk ==
    /\ pc = "apply_fetch"
    /\ tempDevices' = server
    /\ originalDevices' = server
    /\ tempCreated' = Zeros(Len(server))
    /\ hasTempDevices' = FALSE
    /\ loading' = FALSE
    /\ pc' = "idle"
    /\ lastOp' = "apply_done"
    /\ UNCHANGED <<server, nextId, apiStatus, error, batch, idx, delId, netLog>>
    /\ UNCHANGED calls

\* getDevices rejected
ApplyFetchFail ==
    /\ pc = "apply_fetch"
    /\ lastOp' = "apply_fetch_failed"
    /\ ApplyCatch

\* ------------------------------------------------ SceneViewer (the popover)
\* A popover handler and the answer to its one request are taken as one step;
\* the refetch it starts on success is answered by FetchOk / FetchFail.
RECURSIVE LeadingDigits(_, _)
\* the digits a string starts with, from index i
LeadingDigits(s, i) ==
    IF i <= Len(s) /\ IsDigit(s[i]) THEN <<s[i]>> \o LeadingDigits(s, i + 1)
    ELSE <<>>

\* parseInt(numPart, 10) where it can exceed maxNum: a sign, then digits;
\* 0 stands for NaN and for the negative results, which the code skips alike
ParseIntOrZero(numPart) ==
    LET signed == Len(numPart) > 0 /\ numPart[1] \in {"+", "-"}
        digits == LeadingDigits(numPart, IF signed THEN 2 ELSE 1)
    IN  IF Len(digits) = 0 \/ (signed /\ numPart[1] = "-") THEN 0
        ELSE ParseDigits(digits)

RECURSIVE MaxSuffix(_, _, _)
MaxSuffix(list, prefix, i) ==
    IF i > Len(list) THEN 0
    ELSE LET rest == MaxSuffix(list, prefix, i + 1)
             here == IF StartsWith(list[i].name, prefix)
                     THEN ParseIntOrZero(SubSeq(list[i].name, Len(prefix) + 1,
                                                Len(list[i].name)))
                     ELSE 0
         IN  IF here > rest THEN here ELSE rest

generateDeviceName(role, currentDevices) ==
    LET prefix == IF role = "desired" THEN <<"t", "x">>
                  ELSE IF role = "receiver" THEN <<"r", "x">>
                  ELSE <<"j", "a", "m">>
    IN  prefix \o ToStr(MaxSuffix(currentDevices, prefix, 1) + 1)

\* variant: the request resolved and refreshDeviceData is not called
Refresh_Skipped(sent) ==
    /\ netLog' = <<sent>>
    /\ UNCHANGED <<apiStatus, loading, pc>>

\* refreshDeviceData(): fetchDevices runs up to its await
Refresh(sent) ==
    /\ StartFetch
    /\ netLog' = <<sent, Req("fetch", 0, <<>>)>>

\* anything else than a resolved request leaves the App as it is
NoRefresh(sent) ==
    /\ netLog' = sent
    /\ UNCHANGED <<server, nextId, apiStatus, loading, pc>>

PopoverFrame ==
    UNCHANGED <<tempDevices, originalDevices, error, hasTempDevices, batch, idx,
                delId, tempCreated>>

\* handleCreateNewDevice with the popover holding (generated name, role, active)
PopoverCreate(role, active, ok) ==
    LET data == [name |-> generateDeviceName(role, tempDevices),
                 role |-> role, active |-> active]
    IN  /\ Idle
        /\ Call
        /\ ok => ServerAccepts(data)
        /\ IF ok
           THEN /\ server' = ServerCreate(data)
                /\ nextId' = nextId + 1
                /\ Refresh(Req("create", 0, data.name))
                /\ lastOp' = "popover_create_ok"
           ELSE /\ NoRefresh(<<Req("create", 0, data.name)>>)
                /\ lastOp' = "popover_create_failed"
        /\ PopoverFrame

\* the popover opened on device d of the list, role and active set by the user
\* (handlePopoverRoleChange regenerates the name), then handleUpdateDevice
PopoverUpdate(d, role, active, ok) ==
    LET data == [name |-> IF role = d.role THEN d.name
                          ELSE generateDeviceName(role, tempDevices),
                 role |-> role, active |-> active]
    IN  /\ Idle
        /\ Call
        /\ d.id # 0
        /\ ok => ServerAcceptsUpdate(d.id, data)
        /\ IF ok
           THEN /\ server' = ServerUpdate(d.id, data)
                /\ nextId' = nextId
                /\ Refresh(Req("update", d.id, data.name))
                /\ lastOp' = "popover_update_ok"
           ELSE /\ NoRefresh(<<Req("update", d.id, data.name)>>)
                /\ lastOp' = "popover_update_failed"
        /\ PopoverFrame

\* SceneViewer.handleDeleteDevice on the device the popover edits
PopoverDelete(d, yes, ok) ==
    /\ Idle
    /\ Call
    /\ ok => (yes /\ ServerAcceptsDelete(d.id))
    /\ IF ~yes
       THEN /\ NoRefresh(<<>>)
            /\ lastOp' = "popover_delete_declined"
       ELSE IF ok
       THEN /\ server' = ServerDelete(d.id)
            /\ nextId' = nextId
            /\ Refresh(Req("delete", d.id, <<>>))
            /\ lastOp' = "popover_delete_ok"
       ELSE /\ NoRefresh(<<Req("delete", d.id, <<>>)>>)
            /\ lastOp' = "popover_delete_failed"
    /\ PopoverFrame

Popover ==
    /\ calls < MaxPopoverCalls
    /\ \/ \E role \in Roles, active, ok \in BOOLEAN : PopoverCreate(role, active, ok)
       \/ \E d \in Range(tempDevices), role \in Roles, active, ok \in BOOLEAN :
             PopoverUpdate(d, role, active, ok)
       \/ \E d \in Range(tempDevices), yes, ok \in BOOLEAN :
             PopoverDelete(d, yes, ok)

\* the Sidebar handlers and the completions of their requests; the rest of the
\* page stays as it is
Next ==
    \/ FetchOk /\ UNCHANGED viewVars
    \/ FetchFail /\ UNCHANGED viewVars
    \/ \E tempId \in (-MaxTempId)..(-1) : handleAddDevice(tempId) /\ UNCHANGED viewVars
    \/ \E d \in Range(tempDevices) :
          \/ \E role \in Roles \ {d.role} :
                handleDeviceChange(d.id, "role", role) /\ UNCHANGED viewVars
          \/ handleDeviceChange(d.id, "active", ~d.active) /\ UNCHANGED viewVars
          \/ \E name \in NameInputs \ {d.name} :
                handleDeviceChange(d.id, "name", name) /\ UNCHANGED viewVars
    \/ handleCancel /\ UNCHANGED viewVars
    \/ \E id \in Ids(tempDevices) :
          \/ DeleteTemporary(id) /\ UNCHANGED viewVars
          \/ DeleteRejected(id) /\ UNCHANGED viewVars
          \/ DeleteNotConnected(id) /\ UNCHANGED viewVars
          \/ \E yes \in BOOLEAN : DeleteConfirm(id, yes) /\ UNCHANGED viewVars
    \/ DeleteOk /\ UNCHANGED viewVars
    \/ DeleteFail /\ UNCHANGED viewVars
    \/ ApplyRejected /\ UNCHANGED viewVars
    \/ ApplyNotConnected /\ UNCHANGED viewVars
    \/ ApplyNoChange /\ UNCHANGED viewVars
    \/ ApplyStart /\ UNCHANGED viewVars
    \/ ApplyCreateOk /\ UNCHANGED viewVars
    \/ ApplyUpdateOk /\ UNCHANGED viewVars
    \/ ApplyRequestFail /\ UNCHANGED viewVars
    \/ ApplyFetchOk /\ UNCHANGED viewVars
    \/ ApplyFetchFail /\ UNCHANGED viewVars

Spec == Init /\ [][Next]_vars

\* ------------------------------------------- Sidebar: the receiver selection
\* collation order of the characters device names are made of: blank, digits,
\* letters; a capital letter sorts with its small letter
Collation ==
    <<" ", "0", "1", "2", "3", "4", "5", "6", "7", "8", "9",
      "a", "b", "c", "d", "e", "f", "g", "h", "i", "j", "k", "l", "m",
      "n", "o", "p", "q", "r", "s", "t", "u", "v", "w", "x", "y", "z">>

CharRank(c) ==
    LET small == IF c = "T" THEN "t" ELSE c
    IN  CHOOSE k \in 1..Len(Collation) : Collation[k] = small

RECURSIVE localeCompare(_, _, _)
\* a.localeCompare(b) from character i on: -1, 0 or 1
localeCompare(a, b, i) ==
    IF i > Len(a) /\ i > Len(b) THEN 0
    ELSE IF i > Len(a) THEN -1
    ELSE IF i > Len(b) THEN 1
    ELSE IF CharRank(a[i]) < CharRank(b[i]) THEN -1
    ELSE IF CharRank(a[i]) > CharRank(b[i]) THEN 1
    ELSE localeCompare(a, b, i + 1)

roleOrder(role) ==
    CASE role = "receiver" -> 1
      [] role = "desired" -> 2
      [] role = "jammer" -> 3
      [] OTHER -> 99

\* the comparator of the sort: negative when a goes before b
CompareDevices(a, b) ==
    IF roleOrder(a.role) # roleOrder(b.role)
    THEN roleOrder(a.role) - roleOrder(b.role)
    ELSE localeCompare(a.name, b.name, 1)

RECURSIVE InsertSorted(_, _)
\* d put into the sorted sequence list, after the entries it ties with
InsertSorted(list, d) ==
    IF list = <<>> THEN <<d>>
    ELSE IF CompareDevices(d, Head(list)) < 0 THEN <<d>> \o list
    ELSE <<Head(list)>> \o InsertSorted(Tail(list), d)

RECURSIVE SortedDevices(_, _)
\* [...tempDevices].sort(...) : the devices prop of the Sidebar (a stable sort)
SortedDevices(list, n) ==
    IF n = 0 THEN <<>>
    ELSE InsertSorted(SortedDevices(list, n - 1), list[n])

SidebarDevices(list) == SortedDevices(list, Len(list))

IsReceiver(d) == d.role = "receiver"

\* devices.filter(receiver).map(id)
ReceiverIds(devices) ==
    LET rx == SelectSeq(devices, IsReceiver)
    IN  [i \in 1..Len(rx) |-> rx[i].id]

\* the ids no longer present are dropped and nothing else is done
ReconcileSelection_NoReset(devices, prevSelected) ==
    LET Present(id) == id \in Range(ReceiverIds(devices))
    IN  SelectSeq(prevSelected, Present)

\* the filter left out: a selection that is not empty is kept as it is
ReconcileSelection_KeepsStale(devices, prevSelected) ==
    IF Len(prevSelected) > 0 THEN prevSelected ELSE ReceiverIds(devices)

\* the updater of the synchronising effect: finalSelected
ReconcileSelection(devices, prevSelected) ==
    LET currentReceiverDeviceIds == ReceiverIds(devices)
        Present(id) == id \in Range(currentReceiverDeviceIds)
        newSelected == SelectSeq(prevSelected, Present)
    IN  IF Len(newSelected) > 0 THEN newSelected ELSE currentReceiverDeviceIds

\* what the Sidebar does in a step of the App: it is unmounted while the App
\* shows the loading placeholder, mounted with every receiver selected when
\* the placeholder goes, and otherwise rendered again with a new devices
\* array, which runs the synchronising effect
SelectionFollows ==
    /\ calls' <= MaxSelectionCalls
    /\ LET devices == SidebarDevices(tempDevices')
       IN
        IF loading'
        THEN /\ selectedReceiverIds' = <<>>
             /\ UNCHANGED appSelectedReceiverIds
        ELSE IF loading
        THEN LET initial == ReceiverIds(devices)
             IN  /\ selectedReceiverIds' = ReconcileSelection(devices, initial)
                 /\ appSelectedReceiverIds' = initial
        ELSE LET finalSelected ==
                     ReconcileSelection(devices, selectedReceiverIds)
             IN  /\ selectedReceiverIds' = finalSelected
                 /\ appSelectedReceiverIds' =
                        IF finalSelected # selectedReceiverIds
                        THEN finalSelected
                        ELSE appSelectedReceiverIds

\* the App with its Sidebar takes a step; the scene view and the device
\* controls stay as they are
SidebarFollows == SelectionFollows /\ UNCHANGED sceneVars

\* the toggle without the call of onSelectedReceiversChange
handleBadgeClick_NoNotify(deviceId) ==
    /\ Idle
    /\ Call
    /\ calls < MaxSelectionCalls
    /\ LET devices == SidebarDevices(tempDevices)
           Other(id) == id # deviceId
           newSelected ==
               IF deviceId \in Range(selectedReceiverIds)
               THEN SelectSeq(selectedReceiverIds, Other)
               ELSE Append(selectedReceiverIds, deviceId)
           finalSelected == ReconcileSelection(devices, newSelected)
       IN  /\ selectedReceiverIds' = finalSelected
           /\ appSelectedReceiverIds' =
                  IF finalSelected # newSelected THEN finalSelected
                  ELSE appSelectedReceiverIds
    /\ lastOp' = "badge"
    /\ netLog' = <<>>
    /\ UNCHANGED sceneVars
    /\ UNCHANGED <<server, nextId, tempDevices, originalDevices, apiStatus,
                   loading, error, hasTempDevices, pc, batch, idx, delId,
                   tempCreated>>

\* the toggle with no synchronising effect after it
handleBadgeClick_NoSync(deviceId) ==
    /\ Idle
    /\ Call
    /\ calls < MaxSelectionCalls
    /\ LET Other(id) == id # deviceId
           newSelected ==
               IF deviceId \in Range(selectedReceiverIds)
               THEN SelectSeq(selectedReceiverIds, Other)
               ELSE Append(selectedReceiverIds, deviceId)
       IN  /\ selectedReceiverIds' = newSelected
           /\ appSelectedReceiverIds' = newSelected
    /\ lastOp' = "badge"
    /\ netLog' = <<>>
    /\ UNCHANGED sceneVars
    /\ UNCHANGED <<server, nextId, tempDevices, originalDevices, apiStatus,
                   loading, error, hasTempDevices, pc, batch, idx, delId,
                   tempCreated>>

\* a click on the badge of a receiver: the toggle, the notification of the
\* App, and the synchronising effect of the render that follows
handleBadgeClick(deviceId) ==
    /\ Idle
    /\ Call
    /\ calls < MaxSelectionCalls
    /\ LET devices == SidebarDevices(tempDevices)
           Other(id) == id # deviceId
           newSelected ==
               IF deviceId \in Range(selectedReceiverIds)
               THEN SelectSeq(selectedReceiverIds, Other)
               ELSE Append(selectedReceiverIds, deviceId)
           finalSelected == ReconcileSelection(devices, newSelected)
       IN  /\ selectedReceiverIds' = finalSelected
           /\ appSelectedReceiverIds' = finalSelected
    /\ lastOp' = "badge"
    /\ netLog' = <<>>
    /\ UNCHANGED sceneVars
    /\ UNCHANGED <<server, nextId, tempDevices, originalDevices, apiStatus,
                   loading, error, hasTempDevices, pc, batch, idx, delId,
                   tempCreated>>

\* the App with its Sidebar
SelectionNext ==
    \/ FetchOk /\ SidebarFollows
    \/ FetchFail /\ SidebarFollows
    \/ \E tempId \in (-MaxTempId)..(-1) : handleAddDevice(tempId) /\ SidebarFollows
    \/ \E d \in Range(tempDevices) :
          \/ \E role \in Roles \ {d.role} :
                handleDeviceChange(d.id, "role", role) /\ SidebarFollows
          \/ handleDeviceChange(d.id, "active", ~d.active) /\ SidebarFollows
          \/ \E name \in NameInputs \ {d.name} :
                handleDeviceChange(d.id, "name", name) /\ SidebarFollows
    \/ handleCancel /\ SidebarFollows
    \/ \E id \in Ids(tempDevices) :
          \/ DeleteTemporary(id) /\ SidebarFollows
          \/ DeleteRejected(id) /\ SidebarFollows
          \/ DeleteNotConnected(id) /\ SidebarFollows
          \/ \E yes \in BOOLEAN : DeleteConfirm(id, yes) /\ SidebarFollows
    \/ DeleteOk /\ SidebarFollows
    \/ DeleteFail /\ SidebarFollows
    \/ ApplyRejected /\ SidebarFollows
    \/ ApplyNotConnected /\ SidebarFollows
    \/ ApplyNoChange /\ SidebarFollows
    \/ ApplyStart /\ SidebarFollows
    \/ ApplyCreateOk /\ SidebarFollows
    \/ ApplyUpdateOk /\ SidebarFollows
    \/ ApplyRequestFail /\ SidebarFollows
    \/ ApplyFetchOk /\ SidebarFollows
    \/ ApplyFetchFail /\ SidebarFollows
    \/ \E deviceId \in Range(ReceiverIds(tempDevices)) :
          handleBadgeClick(deviceId)

SpecSelection == Init /\ [][SelectionNext]_vars

\* the Sidebar handlers together with the popover of the SceneViewer
NextWithPopover == Next \/ (Popover /\ UNCHANGED viewVars)

SpecPopover == Init /\ [][NextWithPopover]_vars

\* ------------------------------------------------- the scene image loader
\* Two loaders are in the repository: the one inside the SceneViewer component
\* (impl = "viewer") and the hook useSceneImageManager (impl = "hook").  A run
\* follows one loader from the mount of its component.  A setState call of a
\* component that is no longer mounted changes nothing; refs, timers, requests
\* and object URLs are not tied to the component.
StateNow ==
    [imageUrl |-> imageUrl, isLoading |-> isLoading, error |-> imgError,
     usingFallback |-> usingFallback, retryCount |-> retryCount,
     manualRetryMode |-> manualRetryMode]

Assign(st) ==
    /\ imageUrl' = st.imageUrl
    /\ isLoading' = st.isLoading
    /\ imgError' = st.error
    /\ usingFallback' = st.usingFallback
    /\ retryCount' = st.retryCount
    /\ manualRetryMode' = st.manualRetryMode

\* the setState calls of one step; <img key={imageUrl}> is a new element, with
\* its load or error event still to come, whenever the URL is a new one
SetState(st, newUrl) ==
    /\ Assign(IF mounted THEN st ELSE StateNow)
    /\ imgEl' = IF mounted /\ st.imageUrl # "null"
                     /\ (newUrl \/ st.imageUrl # imageUrl)
                 THEN "pending"
                 ELSE imgEl

ImageRequest(id, kind, closure) ==
    [id |-> id, kind |-> kind, closure |-> closure, phase |-> "fetch",
     aborted |-> FALSE]

\* controller.abort() of the controller made for load id
AbortLoad(reqs, id) ==
    [i \in 1..Len(reqs) |->
        IF reqs[i].id = id THEN [reqs[i] EXCEPT !.aborted = TRUE] ELSE reqs[i]]

WithoutLoad(reqs, id) ==
    LET Other(r) == r.id # id
    IN  SelectSeq(reqs, Other)

\* fetchImage up to its first await: what it sets
Started == [StateNow EXCEPT !.isLoading = TRUE, !.error = "null",
                            !.usingFallback = FALSE]

\* fetchImage up to its first await: the object URL revoked, the request sent
StartLoad(kind, closure, reqs) ==
    /\ loads' = loads + 1
    /\ requests' = Append(reqs, ImageRequest(loads + 1, kind, closure))
    /\ prevImageUrlRef' = "null"

\* a load started in a run of a loader
BeginLoad(kind, closure, reqs) ==
    /\ loads < MaxLoads
    /\ StartLoad(kind, closure, reqs)

\* the mount effect of the component
Mount(i) ==
    /\ impl = "none"
    /\ impl' = i
    /\ mounted' = TRUE
    /\ BeginLoad("mount", 0, requests)
    /\ currentCtl' = loads + 1
    /\ Assign(Started)
    /\ lastImg' = "mount"
    /\ lastReq' = 0
    /\ urlCreated' = FALSE
    /\ UNCHANGED <<timers, imgEl, answered, failures>>

\* the cleanup of the mount effect followed by the effect again: StrictMode
\* (main.tsx) does it once right after the mount, and in the hook a change of
\* sceneName does it at any time
EffectRerun ==
    /\ mounted
    /\ impl = "viewer" => lastImg = "mount"
    /\ BeginLoad("mount", 0, AbortLoad(requests, currentCtl))
    /\ currentCtl' = loads + 1
    /\ SetState(Started, FALSE)
    /\ lastImg' = "rerun"
    /\ lastReq' = 0
    /\ urlCreated' = FALSE
    /\ UNCHANGED <<impl, mounted, timers, answered, failures>>

\* the cleanup of the mount effect when the component is unmounted
Teardown ==
    /\ mounted
    /\ mounted' = FALSE
    /\ requests' = AbortLoad(requests, currentCtl)
    /\ currentCtl' = IF impl = "hook" THEN 0 ELSE currentCtl
    /\ prevImageUrlRef' = "null"
    /\ imgEl' = "none"
    /\ lastImg' = "teardown"
    /\ lastReq' = 0
    /\ urlCreated' = FALSE
    /\ UNCHANGED <<impl, loaderState, timers, loads, answered, failures>>

\* SceneViewer.handleDeleteDevice after a successful delete: fetchImage with a
\* fresh signal, then refreshDeviceData, which puts the App in its loading
\* state and so unmounts the SceneViewer
ViewerRefresh ==
    /\ impl = "viewer"
    /\ mounted
    /\ BeginLoad("refresh", retryCount, AbortLoad(requests, currentCtl))
    /\ mounted' = FALSE
    /\ imgEl' = "none"
    /\ lastImg' = "refresh"
    /\ lastReq' = 0
    /\ urlCreated' = FALSE
    /\ UNCHANGED <<impl, loaderState, currentCtl, timers, answered, failures>>

\* the response of load r has been handled
Done(r) ==
    /\ requests' = WithoutLoad(requests, r.id)
    /\ answered' = answered \cup {r.id}
    /\ lastReq' = r.id
    /\ UNCHANGED <<impl, mounted, currentCtl, loads>>

\* the catch block with no finally after it: isLoading is left as it is
ViewerAfterError_NoFinally(st, r) ==
    LET currentRetryCount == r.closure + 1
    IN  [st EXCEPT !.retryCount = currentRetryCount,
                   !.manualRetryMode =
                       IF currentRetryCount >= 3 THEN TRUE ELSE @]

\* SceneViewer.fetchImage, end of the catch block and finally: retryCount is the
\* value the callback closed over
ViewerAfterError(st, r) ==
    LET currentRetryCount == r.closure + 1
    IN  [st EXCEPT !.retryCount = currentRetryCount,
                   !.manualRetryMode =
                       IF currentRetryCount >= 3 THEN TRUE ELSE @,
                   !.isLoading = FALSE]

ViewerRetryTimers(r) ==
    IF r.closure + 1 >= 3 THEN timers ELSE Append(timers, r.closure)

\* SceneViewer.fetchImage: fetch rejected with AbortError
ViewerAborted(r) ==
    /\ impl = "viewer"
    /\ r.aborted /\ r.phase = "fetch"
    /\ SetState(ViewerAfterError(StateNow, r), FALSE)
    /\ timers' = ViewerRetryTimers(r)
    /\ Done(r)
    /\ lastImg' = "aborted"
    /\ urlCreated' = FALSE
    /\ UNCHANGED <<prevImageUrlRef, failures>>

\* SceneViewer.fetchImage: a 2xx response with a non-empty blob
ViewerLoadOk(r) ==
    /\ impl = "viewer"
    /\ ~r.aborted /\ r.phase = "fetch"
    /\ SetState([StateNow EXCEPT !.imageUrl = "scene", !.retryCount = 0,
                                 !.manualRetryMode = FALSE,
                                 !.isLoading = FALSE], TRUE)
    /\ prevImageUrlRef' = "scene"
    /\ Done(r)
    /\ failures' = 0
    /\ lastImg' = "load_ok"
    /\ urlCreated' = TRUE
    /\ UNCHANGED timers

\* SceneViewer.fetchImage: network error, non-2xx response or empty blob; the
\* catch block awaits the fetch of the fallback image
ViewerLoadFail(r) ==
    /\ impl = "viewer"
    /\ ~r.aborted /\ r.phase = "fetch"
    /\ requests' = [i \in 1..Len(requests) |->
                       IF requests[i].id = r.id
                       THEN [requests[i] EXCEPT !.phase = "fallback"]
                       ELSE requests[i]]
    /\ failures' = failures + 1
    /\ lastImg' = "fetch_failed"
    /\ lastReq' = r.id
    /\ urlCreated' = FALSE
    /\ UNCHANGED <<impl, mounted, loaderState, prevImageUrlRef, currentCtl,
                   timers, imgEl, loads, answered>>

\* SceneViewer.fetchImage: the fallback image could not be fetched
ViewerFallbackFail(r) ==
    /\ impl = "viewer"
    /\ r.phase = "fallback"
    /\ SetState(ViewerAfterError(
                    [StateNow EXCEPT !.imageUrl = "static",
                                     !.usingFallback = TRUE,
                                     !.error = "load_failed"], r), FALSE)
    /\ timers' = ViewerRetryTimers(r)
    /\ Done(r)
    /\ lastImg' = "fallback_failed"
    /\ urlCreated' = FALSE
    /\ UNCHANGED <<prevImageUrlRef, failures>>

\* SceneViewer.fetchImage: the fallback image fetched as a blob
ViewerFallbackOk(r) ==
    /\ impl = "viewer"
    /\ r.phase = "fallback"
    /\ SetState(ViewerAfterError(
                    [StateNow EXCEPT !.imageUrl = "fallbackBlob",
                                     !.usingFallback = TRUE,
                                     !.error = "using_fallback"], r), TRUE)
    /\ prevImageUrlRef' = "fallbackBlob"
    /\ timers' = ViewerRetryTimers(r)
    /\ Done(r)
    /\ lastImg' = "fallback_ok"
    /\ urlCreated' = TRUE
    /\ UNCHANGED failures

\* the setTimeout callback of SceneViewer.fetchImage: fetchImage of the same
\* closure, with a fresh signal
ViewerTimerFire(k) ==
    /\ impl = "viewer"
    /\ BeginLoad("timer", timers[k], requests)
    /\ timers' = [i \in 1..(Len(timers) - 1) |->
                     IF i < k THEN timers[i] ELSE timers[i + 1]]
    /\ SetState(Started, FALSE)
    /\ lastImg' = "timer"
    /\ lastReq' = 0
    /\ urlCreated' = FALSE
    /\ UNCHANGED <<impl, mounted, currentCtl, answered, failures>>

\* the hook's fetchImage: every continuation finds signal.aborted
HookAborted(r) ==
    /\ impl = "hook"
    /\ r.aborted
    /\ Done(r)
    /\ lastImg' = "aborted"
    /\ urlCreated' = FALSE
    /\ UNCHANGED <<loaderState, prevImageUrlRef, timers, imgEl, failures>>

\* the hook's fetchImage: a 2xx response with a non-empty blob
HookLoadOk(r) ==
    /\ impl = "hook"
    /\ ~r.aborted
    /\ SetState([StateNow EXCEPT !.imageUrl = "scene", !.retryCount = 0,
                                 !.manualRetryMode = FALSE,
                                 !.isLoading = FALSE], TRUE)
    /\ prevImageUrlRef' = "scene"
    /\ Done(r)
    /\ failures' = 0
    /\ lastImg' = "load_ok"
    /\ urlCreated' = TRUE
    /\ UNCHANGED timers

\* the hook's fetchImage: network error, non-2xx response or empty blob
HookLoadFail(r) ==
    /\ impl = "hook"
    /\ ~r.aborted
    /\ LET newCount == retryCount + 1
           failed == [StateNow EXCEPT !.error = "fetch",
                                      !.retryCount = newCount,
                                      !.isLoading = FALSE]
       IN  SetState(IF newCount > 3
                    THEN [failed EXCEPT !.usingFallback = TRUE,
                                        !.imageUrl = "static",
                                        !.manualRetryMode = TRUE]
                    ELSE failed, FALSE)
    /\ Done(r)
    /\ failures' = failures + 1
    /\ lastImg' = "load_failed"
    /\ urlCreated' = FALSE
    /\ UNCHANGED <<prevImageUrlRef, timers>>

\* the hook's retryLoad
retryLoad ==
    /\ impl = "hook"
    /\ mounted
    /\ BeginLoad("retry", 0, AbortLoad(requests, currentCtl))
    /\ currentCtl' = loads + 1
    /\ SetState(Started, FALSE)
    /\ lastImg' = "retry"
    /\ lastReq' = 0
    /\ urlCreated' = FALSE
    /\ UNCHANGED <<impl, mounted, timers, answered, failures>>

\* onLoad of the <img> element
handleImageLoad ==
    /\ mounted
    /\ imgEl = "pending"
    /\ Assign([StateNow EXCEPT !.isLoading = FALSE,
                               !.error = IF impl = "viewer" /\ ~usingFallback
                                         THEN "null" ELSE @])
    /\ imgEl' = "settled"
    /\ lastImg' = "img_load"
    /\ lastReq' = 0
    /\ urlCreated' = FALSE
    /\ UNCHANGED <<impl, mounted, prevImageUrlRef, currentCtl, requests, timers,
                   loads, answered, failures>>

\* onError of the <img> element
handleImageError ==
    /\ mounted
    /\ imgEl = "pending"
    /\ IF impl = "viewer" /\ (usingFallback \/ imageUrl = "static")
       THEN Assign([StateNow EXCEPT !.error = "fallback_image_failed",
                                    !.isLoading = FALSE])
       ELSE Assign([StateNow EXCEPT !.imageUrl = "static",
                                    !.usingFallback = TRUE,
                                    !.error = "image_failed",
                                    !.isLoading = FALSE])
    /\ imgEl' = IF imageUrl' # imageUrl THEN "pending" ELSE "settled"
    /\ lastImg' = IF usingFallback \/ imageUrl = "static"
                  THEN "img_error_fallback" ELSE "img_error"
    /\ lastReq' = 0
    /\ urlCreated' = FALSE
    /\ UNCHANGED <<impl, mounted, prevImageUrlRef, currentCtl, requests, timers,
                   loads, answered, failures>>

\* the App and its Sidebar stay as they are
LoaderOnly == UNCHANGED <<appVars, selectionVars, coordVars, pointerVars, controlVars>>

ImageNext ==
    \/ \E i \in {"viewer", "hook"} : Mount(i) /\ LoaderOnly
    \/ EffectRerun /\ LoaderOnly
    \/ Teardown /\ LoaderOnly
    \/ ViewerRefresh /\ LoaderOnly
    \/ \E r \in Range(requests) : ViewerAborted(r) /\ LoaderOnly
    \/ \E r \in Range(requests) : ViewerLoadOk(r) /\ LoaderOnly
    \/ \E r \in Range(requests) : ViewerLoadFail(r) /\ LoaderOnly
    \/ \E r \in Range(requests) : ViewerFallbackOk(r) /\ LoaderOnly
    \/ \E r \in Range(requests) : ViewerFallbackFail(r) /\ LoaderOnly
    \/ \E k \in 1..Len(timers) : ViewerTimerFire(k) /\ LoaderOnly
    \/ \E r \in Range(requests) : HookAborted(r) /\ LoaderOnly
    \/ \E r \in Range(requests) : HookLoadOk(r) /\ LoaderOnly
    \/ \E r \in Range(requests) : HookLoadFail(r) /\ LoaderOnly
    \/ retryLoad /\ LoaderOnly
    \/ handleImageLoad /\ LoaderOnly
    \/ handleImageError /\ LoaderOnly

SpecImage == Init /\ [][ImageNext]_vars

\* the fetch of load n settles and fetchImage goes on after its await
Respond(n) ==
    \E r \in Range(requests) :
        /\ r.id = n
        /\ \/ ViewerAborted(r) \/ ViewerLoadOk(r) \/ ViewerLoadFail(r)
           \/ ViewerFallbackOk(r) \/ ViewerFallbackFail(r)
           \/ HookAborted(r) \/ HookLoadOk(r) \/ HookLoadFail(r)
        /\ LoaderOnly

\* every fetch settles: the promise of a request is resolved or rejected
SpecImageLive ==
    Init /\ [][ImageNext]_vars /\ \A n \in 1..MaxLoads : WF_vars(Respond(n))

\* ------------------------------------------- the App with its SceneViewer
\* What the SceneViewer does in a step of the App when it is the component
\* shown (activeComponent '2DRT'): it is unmounted when the App starts to show
\* the loading placeholder, which runs the cleanup of its mount effect, and a
\* new SceneViewer is mounted when the placeholder goes, which runs the mount
\* effect and so fetchImage.  handleDeleteDevice of the popover calls
\* fetchImage itself before refreshDeviceData.
ViewerFollows ==
    IF loading' /\ ~loading
    THEN /\ mounted' = FALSE
         /\ IF lastOp' = "popover_delete_ok"
            THEN /\ StartLoad("refresh", retryCount,
                              AbortLoad(requests, currentCtl))
                 /\ lastImg' = "refresh"
            ELSE /\ requests' = AbortLoad(requests, currentCtl)
                 /\ prevImageUrlRef' = "null"
                 /\ lastImg' = "teardown"
                 /\ UNCHANGED loads
         /\ imgEl' = "none"
         /\ lastReq' = 0
         /\ urlCreated' = FALSE
         /\ UNCHANGED <<impl, loaderState, currentCtl, timers, answered, failures>>
    ELSE IF loading /\ ~loading'
    THEN /\ impl' = "viewer"
         /\ mounted' = TRUE
         /\ StartLoad("mount", 0, requests)
         /\ currentCtl' = loads + 1
         /\ Assign([imageUrl |-> "null", isLoading |-> TRUE, error |-> "null",
                    usingFallback |-> FALSE, retryCount |-> 0,
                    manualRetryMode |-> FALSE])
         /\ imgEl' = "none"
         /\ lastImg' = "mount"
         /\ lastReq' = 0
         /\ urlCreated' = FALSE
         /\ UNCHANGED <<timers, answered, failures>>
    ELSE UNCHANGED imageVars

\* a step of the App with its SceneViewer
SceneStep ==
    /\ calls' <= MaxSceneCalls
    /\ ViewerFollows
    /\ UNCHANGED <<selectionVars, coordVars, pointerVars, controlVars>>

\* the steps no user takes: a request settles and its handler goes on
Settle ==
    \/ FetchOk /\ SceneStep
    \/ FetchFail /\ SceneStep
    \/ DeleteOk /\ SceneStep
    \/ DeleteFail /\ SceneStep
    \/ ApplyCreateOk /\ SceneStep
    \/ ApplyUpdateOk /\ SceneStep
    \/ ApplyRequestFail /\ SceneStep
    \/ ApplyFetchOk /\ SceneStep
    \/ ApplyFetchFail /\ SceneStep

\* the handlers of the Sidebar and of the popover, called by the user
UserStep ==
    \/ \E tempId \in (-MaxTempId)..(-1) : handleAddDevice(tempId) /\ SceneStep
    \/ \E d \in Range(tempDevices) :
          \/ \E role \in Roles \ {d.role} :
                handleDeviceChange(d.id, "role", role) /\ SceneStep
          \/ handleDeviceChange(d.id, "active", ~d.active) /\ SceneStep
          \/ \E name \in NameInputs \ {d.name} :
                handleDeviceChange(d.id, "name", name) /\ SceneStep
    \/ handleCancel /\ SceneStep
    \/ \E id \in Ids(tempDevices) :
          \/ DeleteTemporary(id) /\ SceneStep
          \/ DeleteRejected(id) /\ SceneStep
          \/ DeleteNotConnected(id) /\ SceneStep
          \/ \E yes \in BOOLEAN : DeleteConfirm(id, yes) /\ SceneStep
    \/ ApplyRejected /\ SceneStep
    \/ ApplyNotConnected /\ SceneStep
    \/ ApplyNoChange /\ SceneStep
    \/ ApplyStart /\ SceneStep
    \/ Popover /\ SceneStep

SceneNext == Settle \/ UserStep

\* every request settles: a handler that can go on does go on
SpecScene == Init /\ [][SceneNext]_vars /\ WF_vars(Settle)

\* ------------------------------------------- scene and image coordinates
\* The code computes with floating-point numbers; here the same expressions are
\* computed with fractions <<numerator, denominator>>, denominator positive.
COORDINATE_TRANSFORM == [offsetX |-> 579, offsetY |-> 511, scale |-> <<6, 5>>]

Whole(n) == <<n, 1>>

RECURSIVE Gcd(_, _)
Gcd(m, n) == IF n = 0 THEN m ELSE Gcd(n, m % n)

Abs(n) == IF n < 0 THEN -n ELSE n

\* the fraction n / d in lowest terms, d > 0
Lowest(n, d) ==
    LET g == Gcd(Abs(n), d) IN <<n \div g, d \div g>>

Plus(a, b) == Lowest(a[1] * b[2] + b[1] * a[2], a[2] * b[2])

Minus(a, b) == Lowest(a[1] * b[2] - b[1] * a[2], a[2] * b[2])

Times(a, b) == Lowest(a[1] * b[1], a[2] * b[2])

\* a / b for b > 0
Over(a, b) == Lowest(a[1] * b[2], a[2] * b[1])

Below(a, b) == a[1] * b[2] < b[1] * a[2]

\* Math.min
Least(a, b) == IF Below(b, a) THEN b ELSE a

\* Math.round: the nearest integer, a half rounded up
Round(a) == (2 * a[1] + a[2]) \div (2 * a[2])

\* the scale and the centring offsets of object-fit: contain
Contain(renderedWidth, renderedHeight, naturalWidth, naturalHeight) ==
    LET ratioX == Over(Whole(renderedWidth), Whole(naturalWidth))
        ratioY == Over(Whole(renderedHeight), Whole(naturalHeight))
        actualScale == Least(ratioX, ratioY)
        displayedImageWidth == Times(Whole(naturalWidth), actualScale)
        displayedImageHeight == Times(Whole(naturalHeight), actualScale)
    IN  [actualScale |-> actualScale,
         displayedImageWidth |-> displayedImageWidth,
         displayedImageHeight |-> displayedImageHeight,
         offsetX_render |->
             Over(Minus(Whole(renderedWidth), displayedImageWidth), Whole(2)),
         offsetY_render |->
             Over(Minus(Whole(renderedHeight), displayedImageHeight), Whole(2))]

imageToSceneCoords(mouseX, mouseY, renderedWidth, renderedHeight, naturalWidth, naturalHeight) ==
    IF naturalWidth = 0 \/ naturalHeight = 0 THEN Null
    ELSE
    LET c == Contain(renderedWidth, renderedHeight, naturalWidth, naturalHeight)
        mouseXinDisplayed == Minus(Whole(mouseX), c.offsetX_render)
        mouseYinDisplayed == Minus(Whole(mouseY), c.offsetY_render)
        originalImageX == Over(mouseXinDisplayed, c.actualScale)
        originalImageY == Over(mouseYinDisplayed, c.actualScale)
    IN  IF \/ Below(mouseXinDisplayed, Whole(0))
           \/ Below(c.displayedImageWidth, mouseXinDisplayed)
           \/ Below(mouseYinDisplayed, Whole(0))
           \/ Below(c.displayedImageHeight, mouseYinDisplayed)
        THEN Null
        ELSE [x |-> Round(Over(Minus(originalImageX,
                                     Whole(COORDINATE_TRANSFORM.offsetX)),
                               COORDINATE_TRANSFORM.scale)),
              y |-> Round(Over(Minus(originalImageY,
                                     Whole(COORDINATE_TRANSFORM.offsetY)),
                               COORDINATE_TRANSFORM.scale))]

\* the mapping the viewer keeps the devices on the image with
sceneToImageCoords(sceneX, sceneY, natural, rendered) ==
    IF natural = Null THEN Null
    ELSE IF natural.width = 0 \/ natural.height = 0 THEN Null
    ELSE
    LET c == Contain(rendered.width, rendered.height,
                     natural.width, natural.height)
        originalImageX == Plus(Times(Whole(sceneX), COORDINATE_TRANSFORM.scale),
                               Whole(COORDINATE_TRANSFORM.offsetX))
        originalImageY == Plus(Times(Whole(sceneY), COORDINATE_TRANSFORM.scale),
                               Whole(COORDINATE_TRANSFORM.offsetY))
        mouseXinDisplayed == Times(originalImageX, c.actualScale)
        mouseYinDisplayed == Times(originalImageY, c.actualScale)
    IN  [x |-> Round(Plus(mouseXinDisplayed, c.offsetX_render)),
         y |-> Round(Plus(mouseYinDisplayed, c.offsetY_render))]

\* natural sizes of the scene image
NaturalSizes ==
    {[width |-> 1200, height |-> 1000], [width |-> 1158, height |-> 1022]}

\* sizes of the <img> element: smaller than the image, equal to it, larger,
\* and of another aspect ratio (letterboxed)
RenderedSizes ==
    {[width |-> 600, height |-> 500], [width |-> 1000, height |-> 900],
     [width |-> 1200, height |-> 1000], [width |-> 1400, height |-> 1000],
     [width |-> 1800, height |-> 1500]}

ScenePoints == [x : -MaxScene..MaxScene, y : -MaxScene..MaxScene]

\* an image is shown and a scene position is about to be mapped
InitCoordInputs ==
    /\ imageNaturalSize \in NaturalSizes
    /\ renderedSize \in RenderedSizes
    /\ scenePoint \in ScenePoints
    /\ imagePoint = Null
    /\ backPoint = Null
    /\ coordsPc = "input"

CoordsOnly == UNCHANGED <<appVars, selectionVars, imageVars, pointerVars, controlVars>>

\* the scene position is mapped to a pixel of the <img> element
MapToImage ==
    /\ coordsPc = "input"
    /\ imagePoint' = sceneToImageCoords(scenePoint.x, scenePoint.y,
                                        imageNaturalSize, renderedSize)
    /\ coordsPc' = "image"
    /\ UNCHANGED <<imageNaturalSize, renderedSize, scenePoint, backPoint>>

\* the pixel is mapped back, as for a pointer at that pixel
MapToScene ==
    /\ coordsPc = "image"
    /\ imagePoint # Null
    /\ backPoint' = imageToSceneCoords(imagePoint.x, imagePoint.y,
                                       renderedSize.width, renderedSize.height,
                                       imageNaturalSize.width,
                                       imageNaturalSize.height)
    /\ coordsPc' = "scene"
    /\ UNCHANGED <<imageNaturalSize, renderedSize, scenePoint, imagePoint>>

CoordsNext ==
    \/ MapToImage /\ CoordsOnly
    \/ MapToScene /\ CoordsOnly

InitShown == InitApp /\ InitSidebar /\ InitLoader /\ InitCoordInputs /\ InitPointer /\ InitControls

SpecCoords == InitShown /\ [][CoordsNext]_vars

\* ------------------------------------------- the pointer on the scene image
\* Pointer positions are the whole pixels, relative to the <img> element, that
\* the handlers compute from the event: mouseX, mouseY and clickX, clickY.
HoverTolerance == 5

DeviceAt(id, x, y) == [id |-> id, position_x |-> x, position_y |-> y]

Distance(a, b) == IF a < b THEN b - a ELSE a - b

RECURSIVE FirstHovered_Last(_, _, _, _, _, _)
\* variant: the loop without its break, so that the last match wins
FirstHovered_Last(devices, i, mouseX, mouseY, natural, rendered) ==
    IF i > Len(devices) THEN <<>>
    ELSE LET deviceImageCoords ==
                 sceneToImageCoords(devices[i].position_x, devices[i].position_y,
                                    natural, rendered)
             later == FirstHovered_Last(devices, i + 1, mouseX, mouseY,
                                        natural, rendered)
         IN  IF later # <<>> THEN later
             ELSE IF /\ deviceImageCoords # Null
                     /\ Distance(mouseX, deviceImageCoords.x) <= HoverTolerance
                     /\ Distance(mouseY, deviceImageCoords.y) <= HoverTolerance
             THEN <<devices[i].id>>
             ELSE <<>>

RECURSIVE FirstHovered(_, _, _, _, _, _)
\* the hover check of handleMouseMove: the first device of the list whose
\* marker is within the tolerance on both axes
FirstHovered(devices, i, mouseX, mouseY, natural, rendered) ==
    IF i > Len(devices) THEN <<>>
    ELSE LET deviceImageCoords ==
                 sceneToImageCoords(devices[i].position_x, devices[i].position_y,
                                    natural, rendered)
         IN  IF /\ deviceImageCoords # Null
                /\ Distance(mouseX, deviceImageCoords.x) <= HoverTolerance
                /\ Distance(mouseY, deviceImageCoords.y) <= HoverTolerance
             THEN <<devices[i].id>>
             ELSE FirstHovered(devices, i + 1, mouseX, mouseY, natural, rendered)

\* a pointer event reaches its handler
PointerEvent == ptrCalls < MaxPointerCalls /\ ptrCalls' = ptrCalls + 1

\* imageToSceneCoords as the pointer handlers call it
PointerSceneCoords(x, y) ==
    imageToSceneCoords(x, y, renderedSize.width, renderedSize.height,
                       imageNaturalSize.width, imageNaturalSize.height)

handleMouseMove(mouseX, mouseY) ==
    /\ PointerEvent
    /\ pointerAt' = [x |-> mouseX, y |-> mouseY]
    /\ lastPtr' = "move"
    /\ IF imageNaturalSize # Null
       THEN LET sceneCoords == PointerSceneCoords(mouseX, mouseY)
                foundHoveredDeviceId ==
                    IF sceneCoords # Null
                    THEN FirstHovered(propDevices, 1, mouseX, mouseY,
                                      imageNaturalSize, renderedSize)
                    ELSE <<>>
            IN  /\ mousePosition' =
                       IF sceneCoords # Null
                       THEN [x |-> mouseX, y |-> mouseY,
                             sceneX |-> sceneCoords.x, sceneY |-> sceneCoords.y]
                       ELSE Null
                /\ hoveredDeviceId' = foundHoveredDeviceId
                /\ cursorStyle' =
                       IF foundHoveredDeviceId # <<>> THEN "pointer"
                       ELSE IF sceneCoords # Null THEN "crosshair"
                       ELSE "default"
       ELSE /\ mousePosition' = Null
            /\ hoveredDeviceId' = <<>>
            /\ cursorStyle' = "default"
    /\ UNCHANGED <<propDevices, showPopover, isEditing, editingDeviceId,
                   popoverPosition>>

handleMouseLeave ==
    /\ PointerEvent
    /\ lastPtr # "leave"
    /\ pointerAt' = Null
    /\ lastPtr' = "leave"
    /\ mousePosition' = Null
    /\ hoveredDeviceId' = <<>>
    /\ cursorStyle' = "crosshair"
    /\ UNCHANGED <<propDevices, showPopover, isEditing, editingDeviceId,
                   popoverPosition>>

\* the state changes of handleClosePopover
ClosePopover ==
    /\ showPopover' = FALSE
    /\ popoverPosition' = Null
    /\ isEditing' = FALSE
    /\ editingDeviceId' = <<>>

\* the popover is closed from inside (its close button, or after a submit)
handleClosePopover ==
    /\ PointerEvent
    /\ showPopover
    /\ ClosePopover
    /\ lastPtr' = "close"
    /\ UNCHANGED <<propDevices, hoveredDeviceId, cursorStyle, mousePosition,
                   pointerAt>>

\* the device of the list with the id
DeviceById(devices, id) ==
    devices[CHOOSE i \in 1..Len(devices) :
                /\ devices[i].id = id
                /\ \A j \in 1..(i - 1) : devices[j].id # id]

\* the check of the click position left out
handleImageClick_AnyPosition(clickX, clickY, ok) ==
    /\ PointerEvent
    /\ pointerAt' = [x |-> clickX, y |-> clickY]
    /\ lastPtr' = "click"
    /\ isEditing' = FALSE
    /\ editingDeviceId' = <<>>
    /\ popoverPosition' = [x |-> clickX, y |-> clickY, sceneX |-> 0, sceneY |-> 0]
    /\ showPopover' = TRUE
    /\ UNCHANGED <<propDevices, hoveredDeviceId, cursorStyle, mousePosition>>

\* a click on the image; ok is whether getDeviceById of the edit mode resolves.
\* The position of the device edited is taken from the devices prop.
handleImageClick(clickX, clickY, ok) ==
    /\ PointerEvent
    /\ pointerAt' = [x |-> clickX, y |-> clickY]
    /\ lastPtr' = "click"
    /\ IF imageNaturalSize = Null
       THEN UNCHANGED <<showPopover, popoverPosition, isEditing, editingDeviceId>>
       ELSE IF showPopover
       THEN ClosePopover
       ELSE LET sceneCoords == PointerSceneCoords(clickX, clickY)
            IN  IF sceneCoords = Null
                THEN UNCHANGED <<showPopover, popoverPosition, isEditing,
                                 editingDeviceId>>
                ELSE IF hoveredDeviceId # <<>>
                THEN IF ok /\ hoveredDeviceId[1] \in Ids(propDevices)
                     THEN LET deviceToEdit ==
                                  DeviceById(propDevices, hoveredDeviceId[1])
                          IN  /\ isEditing' = TRUE
                              /\ editingDeviceId' = hoveredDeviceId
                              /\ popoverPosition' =
                                     [x |-> clickX, y |-> clickY,
                                      sceneX |-> deviceToEdit.position_x,
                                      sceneY |-> deviceToEdit.position_y]
                              /\ showPopover' = TRUE
                     ELSE /\ isEditing' = FALSE
                          /\ editingDeviceId' = <<>>
                          /\ UNCHANGED <<showPopover, popoverPosition>>
                ELSE /\ isEditing' = FALSE
                     /\ editingDeviceId' = <<>>
                     /\ popoverPosition' =
                            [x |-> clickX, y |-> clickY,
                             sceneX |-> sceneCoords.x, sceneY |-> sceneCoords.y]
                     /\ showPopover' = TRUE
    /\ UNCHANGED <<propDevices, hoveredDeviceId, cursorStyle, mousePosition>>

\* the devices shown on the image: two markers close to each other
ShownDevices == <<DeviceAt(1, 0, 0), DeviceAt(2, 5, 0)>>

\* sizes of the <img> element for a 1200 x 1000 image: letterboxed left and
\* right, letterboxed above and below at half size, and not letterboxed
PointerRenderedSizes ==
    {[width |-> 1400, height |-> 1000], [width |-> 600, height |-> 700],
     [width |-> 1200, height |-> 1000]}

\* the natural size of the image the pointer is tried on
PointerNaturalSize == [width |-> 1200, height |-> 1000]

\* the image is shown with its devices
InitPointing ==
    /\ imageNaturalSize = PointerNaturalSize
    /\ renderedSize \in PointerRenderedSizes
    /\ scenePoint = Null
    /\ imagePoint = Null
    /\ backPoint = Null
    /\ coordsPc = "idle"
    /\ propDevices = ShownDevices
    /\ hoveredDeviceId = <<>>
    /\ cursorStyle = "crosshair"
    /\ mousePosition = Null
    /\ showPopover = FALSE
    /\ isEditing = FALSE
    /\ editingDeviceId = <<>>
    /\ popoverPosition = Null
    /\ pointerAt = Null
    /\ lastPtr = "none"
    /\ ptrCalls = 0

\* pixels the pointer is tried around: the top left corner of the displayed
\* content and the marker of the last device, which is next to the first one's
PointerAnchors(rendered) ==
    LET c == Contain(rendered.width, rendered.height,
                     PointerNaturalSize.width, PointerNaturalSize.height)
        last == ShownDevices[Len(ShownDevices)]
    IN  {[x |-> Round(c.offsetX_render), y |-> Round(c.offsetY_render)],
         sceneToImageCoords(last.position_x, last.position_y,
                            PointerNaturalSize, rendered)}

\* how far from an anchor, on each axis, the pointer is tried
NearOffsets == {-1, 0, 1}

\* the pointer positions tried, for each size of the element: the pixels of
\* the element next to an anchor
PointerPositions ==
    [rendered \in PointerRenderedSizes |->
        LET near == UNION {{[x |-> a.x + dx, y |-> a.y + dy] :
                               dx \in NearOffsets, dy \in NearOffsets} :
                           a \in PointerAnchors(rendered)}
        IN  {p \in near : /\ p.x \in 0..rendered.width
                          /\ p.y \in 0..rendered.height}]

PointerOnly == UNCHANGED <<appVars, selectionVars, imageVars, coordVars, controlVars>>

PointerNext ==
    \/ \E p \in PointerPositions[renderedSize] :
          handleMouseMove(p.x, p.y) /\ PointerOnly
    \/ handleMouseLeave /\ PointerOnly
    \/ \E p \in PointerPositions[renderedSize] :
          \E ok \in IF hoveredDeviceId # <<>> THEN BOOLEAN ELSE {TRUE} :
              handleImageClick(p.x, p.y, ok) /\ PointerOnly
    \/ handleClosePopover /\ PointerOnly

InitPointerShown == InitApp /\ InitSidebar /\ InitLoader /\ InitPointing /\ InitControls

SpecPointer == InitPointerShown /\ [][PointerNext]_vars

\* ------------------------------------------- Sidebar: the orientation fields
\* the characters that can be typed; the sign, the decimal point and the
\* exponent that parseFloat also reads are not among them
TextChars == {"0", "1", "4", "/", "a"}

Texts(n) == UNION {[1..k -> TextChars] : k \in 0..n}

\* the texts typed into an orientation field
OrientationTexts == Texts(MaxText) \cup {<<"a", "b", "c">>}

includes(s, c) == \E i \in 1..Len(s) : s[i] = c

RECURSIVE split(_, _)
\* String.prototype.split with a one-character separator
split(s, sep) ==
    IF ~includes(s, sep) THEN <<s>>
    ELSE LET i == CHOOSE k \in 1..Len(s) :
                      s[k] = sep /\ \A j \in 1..(k - 1) : s[j] # sep
         IN  <<SubSeq(s, 1, i - 1)>> \o split(SubSeq(s, i + 1, Len(s)), sep)

RECURSIVE DigitPrefix(_)
\* the longest prefix of s made of digits
DigitPrefix(s) ==
    IF Len(s) = 0 \/ ~IsDigit(s[1]) THEN <<>>
    ELSE <<s[1]>> \o DigitPrefix(Tail(s))

\* parseFloat reads the number the text starts with and ignores what follows
parseFloat(s) ==
    LET digits == DigitPrefix(s)
    IN  IF Len(digits) = 0 THEN NaN ELSE Whole(ParseDigits(digits))

isNaN(v) == v = NaN

\* a plain number of radians
Radians(v) == [value |-> v, pi |-> FALSE]

\* v * Math.PI
TimesPi(v) == IF v[1] = 0 THEN Radians(v) ELSE [value |-> v, pi |-> TRUE]

\* variant: a text with '/' that is no fraction is read as a plain number
OrientationValue_FallsBack(value) ==
    LET parts == split(value, "/")
        numValue == parseFloat(value)
    IN  IF /\ Len(parts) = 2
           /\ ~isNaN(parseFloat(parts[1]))
           /\ ~isNaN(parseFloat(parts[2]))
           /\ parseFloat(parts[2]) # Whole(0)
        THEN TimesPi(Over(parseFloat(parts[1]), parseFloat(parts[2])))
        ELSE IF ~isNaN(numValue) THEN Radians(numValue) ELSE Null

\* the value the handler passes to onDeviceChange for a text, or Null when
\* it does not call onDeviceChange
OrientationValue(value) ==
    IF includes(value, "/")
    THEN LET parts == split(value, "/")
         IN  IF Len(parts) = 2
             THEN LET numerator == parseFloat(parts[1])
                      denominator == parseFloat(parts[2])
                  IN  IF /\ ~isNaN(numerator)
                         /\ ~isNaN(denominator)
                         /\ denominator # Whole(0)
                      THEN TimesPi(Over(numerator, denominator))
                      ELSE Null
             ELSE Null
    ELSE LET numValue == parseFloat(value)
         IN  IF ~isNaN(numValue) THEN Radians(numValue) ELSE Null

\* handleDeviceOrientationInputChange(deviceId, axis, value), and the same
\* steps of handleOrientationInput in the older Sidebar and in the popover;
\* onDeviceChange stores the value in the staged device
handleDeviceOrientationInputChange(axis, value) ==
    /\ orientationCalls < MaxOrientationCalls
    /\ orientationCalls' = orientationCalls + 1
    /\ typed' = [axis |-> axis, value |-> value]
    /\ orientationInputs' = [orientationInputs EXCEPT ![axis] = value]
    /\ LET newValue == OrientationValue(value)
       IN  orientation' = IF newValue = Null THEN orientation
                          ELSE [orientation EXCEPT ![axis] = newValue]

\* the fields of a device: untouched, or with "1/4" typed for x before
InitTyping ==
    /\ \E first \in {<<"0">>, <<"1", "/", "4">>} :
          /\ orientationInputs = [axis \in Axes |->
                                     IF axis = "x" THEN first ELSE <<"0">>]
          /\ orientation = [axis \in Axes |->
                               IF axis = "x" THEN OrientationValue(first)
                               ELSE Radians(Whole(0))]
    /\ typed = Null
    /\ orientationCalls = 0

OrientationOnly == UNCHANGED <<appVars, selectionVars, imageVars, coordVars, pointerVars, manualVars>>

OrientationNext ==
    \E axis \in Axes : \E value \in OrientationTexts :
        handleDeviceOrientationInputChange(axis, value) /\ OrientationOnly

InitOrientationShown == InitApp /\ InitSidebar /\ InitLoader /\ InitCoords /\ InitPointer /\ InitTyping /\ InitManual

SpecOrientation == InitOrientationShown /\ [][OrientationNext]_vars

\* ---------------------------------------- Sidebar: the manual control buttons
\* the directions of three of the twelve buttons
Directions == {"up", "down", "left"}

\* a pointer event on a button of the mounted Sidebar
ManualEvent ==
    /\ ~loading
    /\ manualCalls < MaxManualCalls
    /\ manualCalls' = manualCalls + 1

\* App.handleManualControl, the onManualControl prop of the Sidebar, of the
\* render in which the App held the selection ids
handleManualControl(direction, ids) ==
    manualDirection' = IF Len(ids) = 0 THEN manualDirection ELSE direction

\* the pointer comes over a button; no handler is bound to that
PointerEnter(direction) ==
    /\ ManualEvent
    /\ overButton = "none"
    /\ overButton' = direction
    /\ lastManual' = "enter"
    /\ command' = "none"
    /\ ticked' = 0
    /\ UNCHANGED <<manualIntervalRef, manualTimers, timerSeq, manualDirection, pressed>>

\* variant: the press arms the interval and dispatches nothing itself
handleManualDown_NoImmediate(direction) ==
    /\ ManualEvent
    /\ overButton = direction
    /\ command' = "none"
    /\ ticked' = 0
    /\ timerSeq' = timerSeq + 1
    /\ manualTimers' = {t \in manualTimers : t.id # manualIntervalRef}
                          \cup {[id |-> timerSeq', direction |-> direction,
                                 ids |-> appSelectedReceiverIds]}
    /\ manualIntervalRef' = timerSeq'
    /\ pressed' = direction
    /\ lastManual' = "down"
    /\ UNCHANGED <<overButton, manualDirection>>

\* onMouseDown of the button under the pointer; the callback of the interval
\* closes over direction and over the onManualControl of this render
handleManualDown(direction) ==
    /\ ManualEvent
    /\ overButton = direction
    /\ handleManualControl(direction, appSelectedReceiverIds)
    /\ command' = direction
    /\ ticked' = 0
    /\ timerSeq' = timerSeq + 1
    /\ manualTimers' = {t \in manualTimers : t.id # manualIntervalRef}
                          \cup {[id |-> timerSeq', direction |-> direction,
                                 ids |-> appSelectedReceiverIds]}
    /\ manualIntervalRef' = timerSeq'
    /\ pressed' = direction
    /\ lastManual' = "down"
    /\ UNCHANGED overButton

\* the callback of an interval that has not been cleared
IntervalTick(t) ==
    /\ t \in manualTimers
    /\ handleManualControl(t.direction, t.ids)
    /\ command' = t.direction
    /\ ticked' = t.id
    /\ lastManual' = "tick"
    /\ UNCHANGED <<manualIntervalRef, manualTimers, timerSeq, overButton, pressed,
                   manualCalls>>

\* handleManualUp, bound to onMouseUp and onMouseLeave of every button
handleManualUp ==
    /\ manualTimers' = {t \in manualTimers : t.id # manualIntervalRef}
    /\ manualIntervalRef' = 0
    /\ handleManualControl("null", appSelectedReceiverIds)
    /\ command' = "null"
    /\ ticked' = 0
    /\ pressed' = "none"
    /\ UNCHANGED timerSeq

\* onMouseUp of the button under the pointer
MouseUp ==
    /\ ManualEvent
    /\ overButton # "none"
    /\ handleManualUp
    /\ lastManual' = "up"
    /\ UNCHANGED overButton

\* onMouseLeave of the button under the pointer
MouseLeave ==
    /\ ManualEvent
    /\ overButton # "none"
    /\ handleManualUp
    /\ lastManual' = "leave"
    /\ overButton' = "none"

\* what the buttons do in a step of the App: while the App shows the loading
\* placeholder the Sidebar is unmounted, its buttons are gone and so is its
\* ref; no effect of the Sidebar clears the interval.  The Sidebar mounted
\* when the placeholder goes has a ref that holds null.
ControlsFollow ==
    /\ manualIntervalRef' = 0
    /\ overButton' = "none"
    /\ command' = "none"
    /\ ticked' = 0
    /\ lastManual' = IF loading' THEN "unmount" ELSE "mount"
    /\ UNCHANGED <<manualTimers, timerSeq, manualDirection, pressed, manualCalls>>

\* a step of the App with its Sidebar
AppStep ==
    /\ SelectionFollows
    /\ ControlsFollow
    /\ UNCHANGED <<imageVars, coordVars, pointerVars, orientationVars>>

\* a request that the popover of the scene view sent for device d resolves:
\* refreshDeviceData()
RefreshAfterPopover(d) == PopoverUpdate(d, d.role, d.active, TRUE)

ManualOnly == UNCHANGED <<appVars, selectionVars, imageVars, coordVars, pointerVars, orientationVars>>

ManualNext ==
    \/ FetchOk /\ AppStep
    \/ FetchFail /\ AppStep
    \/ \E d \in Range(tempDevices) : RefreshAfterPopover(d) /\ AppStep
    \/ \E direction \in Directions : PointerEnter(direction) /\ ManualOnly
    \/ \E direction \in Directions : handleManualDown(direction) /\ ManualOnly
    \/ \E t \in manualTimers : IntervalTick(t) /\ ManualOnly
    \/ MouseUp /\ ManualOnly
    \/ MouseLeave /\ ManualOnly

SpecManual == Init /\ [][ManualNext]_vars

\* the manual control buttons with the role fields of the Sidebar: a role is
\* changed (with the keyboard, which needs no pointer) and the Sidebar is
\* rendered again; its ref and its interval are those of before
ManualEditNext ==
    \/ ManualNext
    \/ \E d \in Range(tempDevices) : \E role \in Roles \ {d.role} :
          handleDeviceChange(d.id, "role", role) /\ SidebarFollows

SpecManualEdit == Init /\ [][ManualEditNext]_vars

\* ------------------------------------------------------------------ claims
HasActive(list, role) ==
    \E i \in 1..Len(list) : list[i].active /\ list[i].role = role

\* at least one active desired device and at least one active receiver
Valid(list) == HasActive(list, "desired") /\ HasActive(list, "receiver")

ListsUnchanged ==
    /\ tempDevices' = tempDevices
    /\ originalDevices' = originalDevices

NothingSent == netLog' = <<>> /\ server' = server /\ nextId' = nextId /\ pc' = "idle"

\* the steps in which handleApply was called
ApplyCalled ==
    lastOp \in {"apply_invalid", "apply_notconnected", "apply_nochange",
                "apply_started"}

\* the steps in which handleDeleteDevice was called on a persisted device
DeleteCalled ==
    lastOp \in {"remove_invalid", "remove_notconnected", "remove_declined",
                "remove_sent"}

\* C1: once the committed list holds an active desired device and an active
\* receiver, it holds them after every step of the Sidebar handlers and of the
\* popover's create, update and delete.
C1_CommittedStaysValid == [][Valid(originalDevices) => Valid(originalDevices')]_vars

\* C2: a call of apply() is rejected by the validation exactly when the staged
\* list lacks an active desired device or an active receiver; inactive devices
\* and jammers do not count.
C2_ApplyValidation ==
    ApplyCalled => ((lastOp = "apply_invalid") <=> ~Valid(tempDevices))

\* a rejected apply on a list whose only desired device is inactive, next to an
\* active receiver
C2_Witness ==
    /\ lastOp = "apply_invalid"
    /\ HasActive(tempDevices, "receiver")
    /\ \E i \in 1..Len(tempDevices) :
          tempDevices[i].role = "desired" /\ ~tempDevices[i].active

\* C3: an apply() rejected by the validation sends no request and leaves the
\* staged list and the committed list as they were.
C3_RejectedApplyNoEffect ==
    [][lastOp' = "apply_invalid" => (NothingSent /\ ListsUnchanged)]_vars

\* a rejected apply with staged edits still in place
C3_Witness ==
    /\ lastOp = "apply_invalid"
    /\ apiStatus = "connected"
    /\ tempDevices # originalDevices
    /\ netLog = <<>>

C5_RemoveOnlyOnSuccess ==
    [][/\ (lastOp' \in {"remove_sent", "remove_declined", "remove_notconnected",
                        "remove_failed"}) => ListsUnchanged
       /\ (lastOp' = "remove_failed") => error' = "delete"
       /\ (lastOp' = "remove_ok") =>
             /\ delId \in Ids(originalDevices)
             /\ tempDevices' = WithoutId(tempDevices, delId)
             /\ originalDevices' = WithoutId(originalDevices, delId)
             /\ delId \notin Ids(tempDevices') \cup Ids(originalDevices')]_vars

\* a failed delete request: the device is still in both lists
C5_Witness ==
    /\ lastOp = "remove_failed"
    /\ delId \in Ids(tempDevices) \cap Ids(originalDevices)
    /\ error = "delete"

\* C6: after cancel() the staged list equals the committed list, and the
\* committed list is the one before the cancel.
C6_CancelRestores ==
    [][lastOp' = "cancel"
          => (tempDevices' = originalDevices /\ originalDevices' = originalDevices)]_vars

\* a cancel after at least two other handler calls, with the service connected
C6_Witness ==
    /\ lastOp = "cancel"
    /\ calls >= 3
    /\ apiStatus = "connected"
    /\ tempDevices = originalDevices

\* C7: after an apply() whose requests and final fetch all succeeded, the
\* staged list and the committed list are the list the service returned, and no
\* staged device has a negative id.
C7_ApplyReconciles ==
    lastOp = "apply_done"
        => /\ tempDevices = server
           /\ originalDevices = server
           /\ \A i \in 1..Len(tempDevices) : tempDevices[i].id >= 0

\* a completed apply that created a device and updated another
C7_Witness ==
    /\ lastOp = "apply_done"
    /\ \E i, j \in 1..Len(netLog) :
          netLog[i].op = "create" /\ netLog[j].op = "update"

\* C8: when a create or update request of apply() fails, the requests sent are
\* those of the batch up to the failed one and no other (none for a later
\* device, no delete), what was written before the failure is still on the
\* service, and the error is reported.
C8_FailureAbortsBatch ==
    lastOp = "apply_failed"
        => /\ pc = "idle"
           /\ error = "apply"
           /\ Len(netLog) = idx /\ idx <= Len(batch)
           /\ \A i \in 1..Len(netLog) : netLog[i] = BatchReq(batch[i])
           /\ \A i \in 1..(idx - 1) :
                 IF batch[i].kind = "create"
                 THEN batch[i].dev.name \in Names(server)
                 ELSE \E k \in 1..Len(server) :
                         /\ server[k].id = batch[i].dev.id
                         /\ Payload(server[k]) = Payload(batch[i].dev)

\* the second of three requests failed
C8_Witness ==
    /\ lastOp = "apply_failed"
    /\ idx = 2
    /\ Len(batch) = 3

\* C9: every staged temporary device has been created on the service at most
\* once, over all the apply() calls made while it was staged.
C9_CreatedAtMostOnce == \A i \in 1..Len(tempCreated) : tempCreated[i] <= 1

\* C10: addTemporary, update and remove of a temporary device send no request
\* and leave the committed list as it was.
C10_LocalOnly ==
    [][lastOp' \in {"add", "change", "remove_temp"}
          => (NothingSent /\ originalDevices' = originalDevices)]_vars

\* a temporary device of the committed placeholder list was removed from the
\* staged list
C10_Witness ==
    /\ lastOp = "remove_temp"
    /\ Len(tempDevices) < Len(originalDevices)

\* C11: every device appended by handleAddDevice has a negative id, and no two
\* devices of the staged list have the same id.
C11_UniqueNegativeIds ==
    /\ (lastOp = "add" => tempDevices[Len(tempDevices)].id < 0)
    /\ \A i, j \in 1..Len(tempDevices) :
           tempDevices[i].id = tempDevices[j].id => i = j

C13_SelectionNotEmpty ==
    [][(~loading' /\ tempDevices' # tempDevices
           /\ ReceiverIds(tempDevices') # <<>>)
          => selectedReceiverIds' # <<>>]_vars

\* the only selected receiver has just lost its role or been removed, and the
\* selection now holds a receiver added since the fetch: it was reset to all
C13_Witness ==
    /\ ~loading
    /\ apiStatus = "connected"
    /\ calls = 2
    /\ lastOp \in {"change", "remove_temp"}
    /\ \E i \in 1..Len(selectedReceiverIds) : selectedReceiverIds[i] < 0

\* C14: right after the handling of a failed image load, the loader is in
\* fallback mode, shows the static image and offers the manual retry when this
\* was the third failure in a row or a later one, and is not in fallback mode
\* when it was the first or the second.
C14_FallbackAfterThree ==
    (mounted /\ lastImg \in {"load_failed", "fallback_ok", "fallback_failed"}) =>
        IF failures >= 3
        THEN /\ usingFallback
             /\ imageUrl \in {"static", "fallbackBlob"}
             /\ manualRetryMode
        ELSE ~usingFallback

\* C15: right after a successful image load the retry counter is 0 and the
\* error, the fallback flag and the manual-retry flag are cleared.
C15_SuccessClears ==
    (mounted /\ lastImg = "load_ok") =>
        /\ retryCount = 0
        /\ imgError = "null"
        /\ ~usingFallback
        /\ ~manualRetryMode

\* C16: the handling of a cancelled image load leaves the retry counter, the
\* fallback flag and the error as they are and schedules no retry.
C16_CancelledChangesNothing ==
    [][lastImg' = "aborted" =>
          /\ retryCount' = retryCount
          /\ timers' = timers
          /\ usingFallback' = usingFallback
          /\ imgError' = imgError]_vars

\* C17: when the response of a load is handled after the response of a load
\* started later, the loader state stays as it is.
C17_LateResponseChangesNothing ==
    [][(lastReq' \in answered' \ answered
           /\ \E b \in answered : b > lastReq')
          => UNCHANGED loaderState]_vars

\* C18: once the loader is torn down, every load still in flight is a
\* cancelled one, the object URL is released, and no step creates an object
\* URL.
C18_TeardownReleases ==
    (impl # "none" /\ ~mounted) =>
        /\ \A r \in Range(requests) : r.aborted
        /\ prevImageUrlRef = "null"
        /\ ~urlCreated

\* C19: right after the fallback image has failed to load, the loader has its
\* error set and no automatic retry is scheduled.
C19_FallbackFailureIsTerminal ==
    (mounted /\ lastImg \in {"fallback_failed", "img_error_fallback"}) =>
        /\ imgError # "null"
        /\ timers = <<>>

\* C20: mapping a scene position to a pixel of the displayed image and that
\* pixel back to the scene gives the position started from, whenever the pixel
\* lies inside the displayed image content, for every natural and rendered size.
C20_RoundTrip ==
    (coordsPc = "scene" /\ backPoint # Null) => backPoint = scenePoint

\* s is an initial part of t
IsPrefix(s, t) == Len(s) <= Len(t) /\ s = SubSeq(t, 1, Len(s))

\* the create and update requests among the requests sent
SentCreates == SelectSeq(netLog, LAMBDA r : r.op = "create")

SentUpdates == SelectSeq(netLog, LAMBDA r : r.op = "update")

\* the positions of the staged list, in its order, that satisfy a test
StagedWhere(Test(_)) ==
    SelectSeq([i \in 1..Len(tempDevices) |-> i], LAMBDA i : Test(tempDevices[i]))

IsTemporary(d) == d.id < 0

\* persisted and different from the committed entry with the same id
IsModified(d) ==
    /\ d.id >= 0
    /\ \A i \in 1..Len(originalDevices) :
           originalDevices[i].id = d.id => originalDevices[i] # d

RequestsFor(op, at) ==
    [k \in 1..Len(at) |-> Req(op, tempDevices[at[k]].id, tempDevices[at[k]].name)]

\* C25: within one handleApply every create request is sent, and answered,
\* before the first update request is sent, and the creates and the updates are
\* each sent in the order of the staged list.
C25_CreatesBeforeUpdates ==
    pc \in {"apply", "apply_fetch"} =>
        /\ SelectSeq(netLog, LAMBDA r : r.op \in {"create", "update"})
               = SentCreates \o SentUpdates
        /\ IsPrefix(SentCreates, RequestsFor("create", StagedWhere(IsTemporary)))
        /\ IsPrefix(SentUpdates, RequestsFor("update", StagedWhere(IsModified)))
        /\ SentUpdates # <<>> =>
               /\ Len(SentCreates) = Len(StagedWhere(IsTemporary))
               /\ \A i \in 1..Len(tempDevices) :
                      IsTemporary(tempDevices[i]) => tempCreated[i] >= 1

\* a batch with a create and an update, the update sent
C25_Witness ==
    /\ pc = "apply"
    /\ SentCreates # <<>>
    /\ SentUpdates # <<>>

\* the creates and the updates sent are those of the whole partition
SentWholePartition ==
    /\ SentCreates = RequestsFor("create", StagedWhere(IsTemporary))
    /\ SentUpdates = RequestsFor("update", StagedWhere(IsModified))

SuffixOf(name, prefix) ==
    IF /\ StartsWith(name, prefix)
       /\ Len(name) > Len(prefix)
       /\ AllDigits(SubSeq(name, Len(prefix) + 1, Len(name)))
    THEN ParseDigits(SubSeq(name, Len(prefix) + 1, Len(name)))
    ELSE 0

\* the highest numeric suffix among the names, 0 when no name has the prefix
HighestSuffix(names, prefix) ==
    IF \E nm \in names : SuffixOf(nm, prefix) > 0
    THEN CHOOSE n \in {SuffixOf(nm, prefix) : nm \in names} :
             \A nm \in names : SuffixOf(nm, prefix) <= n
    ELSE 0

\* the names of the devices of a list at the positions other than i
OtherNames(list, i) == {list[j].name : j \in (1..Len(list)) \ {i}}

\* C27: the name given by handleAddDevice, and by the rename of a role change,
\* is the prefix of the role followed by n, where n is one more than the
\* highest numeric suffix among the names of the other staged devices with
\* that prefix (1 when there is none).
C27_NextSuffixName ==
    [][/\ lastOp' = "add" =>
              tempDevices'[Len(tempDevices')].name
                  = getPrefix("receiver")
                        \o ToStr(HighestSuffix(Names(tempDevices),
                                               getPrefix("receiver")) + 1)
       /\ lastOp' = "change" =>
              \A i \in 1..Len(tempDevices) :
                  (tempDevices'[i].name # tempDevices[i].name
                      /\ tempDevices'[i].role # tempDevices[i].role)
                  => tempDevices'[i].name
                         = getPrefix(tempDevices'[i].role)
                               \o ToStr(HighestSuffix(OtherNames(tempDevices, i),
                                            getPrefix(tempDevices'[i].role)) + 1)]_vars

\* no two devices of the list have the same name
DistinctNames(list) ==
    \A i, j \in 1..Len(list) : list[i].name = list[j].name => i = j

\* a step of handleDeviceChange that changed a role
RoleChanged ==
    /\ lastOp' = "change"
    /\ \E i \in 1..Len(tempDevices) : tempDevices'[i].role # tempDevices[i].role

\* C28: handleAddDevice and a role change keep the names of the staged list
\* pairwise distinct.
C28_NamesStayDistinct ==
    [][((lastOp' = "add" \/ RoleChanged) /\ DistinctNames(tempDevices))
          => DistinctNames(tempDevices')]_vars

\* C29: while the Sidebar is shown, every id in its selection is the id of a
\* staged device with role receiver: the reconciliation that follows every
\* change of the device list drops the ids of removed devices and of devices
\* that are no longer receivers.
C29_SelectionOnlyReceivers ==
    ~loading =>
        \A k \in 1..Len(selectedReceiverIds) :
            \E i \in 1..Len(tempDevices) :
                /\ tempDevices[i].id = selectedReceiverIds[k]
                /\ tempDevices[i].role = "receiver"

\* a committed receiver, selected since the fetch, is staged with another role,
\* and the selection holds another receiver
C29_Witness ==
    /\ ~loading
    /\ lastOp = "change"
    /\ selectedReceiverIds # <<>>
    /\ \E i \in 1..Len(tempDevices), j \in 1..Len(originalDevices) :
          /\ tempDevices[i].id = originalDevices[j].id
          /\ originalDevices[j].role = "receiver"
          /\ tempDevices[i].role # "receiver"

\* C30: while the Sidebar is shown, the ids the App holds for the flight
\* control (the ids last passed to onSelectedReceiversChange, or set by
\* fetchDevices) are the ids of the Sidebar's selection.
C30_AppHoldsSelection ==
    ~loading => Range(appSelectedReceiverIds) = Range(selectedReceiverIds)

\* a badge was clicked while two receivers were staged, and one is selected
C30_Witness ==
    /\ ~loading
    /\ lastOp = "badge"
    /\ Len(ReceiverIds(tempDevices)) = 2
    /\ Len(selectedReceiverIds) = 1

\* The pointer position p, after the letterbox margin is subtracted, is outside
\* [0, displayedWidth] x [0, displayedHeight]; n is the natural size, r the
\* size of the element.  Everything is multiplied by the denominators.
OutsideContent(p, n, r) ==
    IF r.width * n.height <= r.height * n.width
    THEN \* scaled by r.width / n.width: margins above and below
         LET margin2 == r.height * n.width - n.height * r.width
             y2 == 2 * n.width * p.y - margin2
         IN  \/ p.x < 0 \/ p.x > r.width
             \/ y2 < 0 \/ y2 > 2 * n.height * r.width
    ELSE \* scaled by r.height / n.height: margins left and right
         LET margin2 == r.width * n.height - n.width * r.height
             x2 == 2 * n.height * p.x - margin2
         IN  \/ p.y < 0 \/ p.y > r.height
             \/ x2 < 0 \/ x2 > 2 * n.width * r.height

\* C21: for a pointer position outside the displayed image content,
\* imageToSceneCoords yields no position, handleMouseMove leaves no hover
\* target, and handleImageClick leaves no popover open.
C21_OutsideContentIgnored ==
    [][(/\ lastPtr' \in {"move", "click"}
        /\ ptrCalls' # ptrCalls
        /\ OutsideContent(pointerAt', imageNaturalSize, renderedSize))
          => /\ PointerSceneCoords(pointerAt'.x, pointerAt'.y) = Null
             /\ lastPtr' = "move" => (hoveredDeviceId' = <<>> /\ mousePosition' = Null)
             /\ lastPtr' = "click" => ~showPopover']_vars

\* a click in the letterbox margin while a device is still the hover target
C21_Witness ==
    /\ lastPtr = "click"
    /\ OutsideContent(pointerAt, imageNaturalSize, renderedSize)
    /\ hoveredDeviceId # <<>>
    /\ ~showPopover

\* a text that starts with a number, which is what the number parser of the
\* handlers accepts
ReadsAsNumber(s) == Len(s) > 0 /\ IsDigit(s[1])

\* a plain number: no '/' in it
IsNumberText(s) == ReadsAsNumber(s) /\ \A i \in 1..Len(s) : s[i] # "/"

\* a fraction a/b with numeric a, numeric b and b # 0
IsFractionText(s) ==
    \E i \in 1..Len(s) :
        LET a == SubSeq(s, 1, i - 1)
            b == SubSeq(s, i + 1, Len(s))
        IN  /\ s[i] = "/"
            /\ \A j \in 1..Len(s) : s[j] = "/" => j = i
            /\ ReadsAsNumber(a)
            /\ ReadsAsNumber(b)
            /\ ParseDigits(DigitPrefix(b)) # 0

\* C22: typing a text that is neither a number nor a fraction a/b with
\* numeric a, numeric b and b # 0 into an orientation field makes the text
\* of that field the typed text, leaves the texts of the other fields and
\* the orientation of the device as they were, and stores no error.
C22_UnparseableKeepsValue ==
    [][(/\ orientationCalls' = orientationCalls + 1
        /\ ~IsNumberText(typed'.value)
        /\ ~IsFractionText(typed'.value))
       => /\ orientationInputs' = [orientationInputs EXCEPT ![typed'.axis] = typed'.value]
          /\ orientation' = orientation
          /\ error' = error]_vars

\* "1/" was typed into the x field after "1/4": the field shows "1/" and
\* the orientation is still pi/4
C22_Witness ==
    /\ typed = [axis |-> "x", value |-> <<"1", "/">>]
    /\ orientationInputs["x"] = <<"1", "/">>
    /\ orientation["x"] = [value |-> <<1, 4>>, pi |-> TRUE]

\* C23: a press-start on the button of direction d gives d to
\* onManualControl at once, and from then until the press-end or the
\* pointer-leave the interval that the press armed is live and every tick of
\* it gives d to onManualControl.
C23_PressRepeatsDirection ==
    [][/\ (manualCalls' = manualCalls + 1 /\ lastManual' = "down")
          => command' = overButton /\ command' \in Directions
       /\ pressed' # "none" => \E t \in manualTimers' : t.direction = pressed'
       /\ (lastManual' = "tick" /\ ticked' = timerSeq /\ pressed # "none")
          => command' = pressed]_vars

\* the interval ticked while the up button is held
C23_Witness ==
    /\ lastManual = "tick"
    /\ ticked = manualIntervalRef
    /\ pressed = "up"
    /\ command = "up"
    /\ manualDirection = "up"

\* C24: a press-end or a pointer-leave clears the interval and gives null
\* to onManualControl; from then until the next press-start no interval is
\* live and no step gives a direction to onManualControl.
C24_ReleaseStopsRepeat ==
    [][/\ (manualCalls' = manualCalls + 1 /\ lastManual' \in {"up", "leave"})
          => /\ manualTimers' = {}
             /\ manualIntervalRef' = 0
             /\ command' = "null"
       /\ (pressed = "none" /\ lastManual' # "down")
          => /\ manualTimers = {}
             /\ command' \notin Directions]_vars

\* C31: a retry timer is set only while fewer than 3 image loads in a row
\* have failed; from the third failure on no automatic retry is scheduled, so
\* the automatic loads that follow one another are bounded.
C31_RetriesBounded ==
    [][Len(timers') > Len(timers) => (retryCount' < 3 /\ failures' < 3)]_vars

\* C32: at most one image load that has not been cancelled is in flight.
C32_OneOutstandingLoad ==
    \A i, j \in 1..Len(requests) :
        (~requests[i].aborted /\ ~requests[j].aborted) => i = j

\* C33: while the Sidebar is unmounted no interval of its buttons is live,
\* and once the component of the image loader is unmounted no retry timer
\* is pending.
C33_NoTimerAfterTeardown ==
    /\ loading => manualTimers = {}
    /\ (impl # "none" /\ ~mounted) => timers = <<>>

\* where the marker of the i-th device of the list is drawn
Marker(i) ==
    sceneToImageCoords(propDevices[i].position_x, propDevices[i].position_y,
                       imageNaturalSize, renderedSize)

\* the devices of the list whose marker is within 5 pixels of p on both axes
WithinTolerance(p) ==
    {i \in 1..Len(propDevices) :
        /\ p.x - Marker(i).x \in (-5)..5
        /\ p.y - Marker(i).y \in (-5)..5}

\* C34: after a pointer move over the image content the hover target is the
\* device that comes first in the list among those whose marker is within 5
\* pixels of the pointer on both axes, however near the others are; after a
\* pointer move with no marker within 5 pixels on both axes there is no
\* hover target.
C34_FirstMatchHover ==
    [][(lastPtr' = "move" /\ ptrCalls' # ptrCalls)
       => LET near == WithinTolerance(pointerAt')
          IN  /\ near = {} => hoveredDeviceId' = <<>>
              /\ (/\ near # {}
                  /\ ~OutsideContent(pointerAt', imageNaturalSize, renderedSize))
                 => \E i \in near :
                        /\ \A j \in near : i <= j
                        /\ hoveredDeviceId' = <<propDevices[i].id>>]_vars

\* the pointer is 5 pixels from the marker of the first device and nearer to
\* the marker of the second one: the first device is the hover target
C34_Witness ==
    /\ lastPtr = "move"
    /\ WithinTolerance(pointerAt) = {1, 2}
    /\ Distance(pointerAt.x, Marker(2).x) < Distance(pointerAt.x, Marker(1).x)
    /\ Distance(pointerAt.y, Marker(2).y) = Distance(pointerAt.y, Marker(1).y)
    /\ hoveredDeviceId = <<1>>

\* C35: at most one interval of the manual control buttons is live, and
\* every tick after a press-start gives the direction of that press to
\* onManualControl.
C35_OneRepeatTimer ==
    [][/\ Cardinality(manualTimers') <= 1
       /\ (lastManual' = "tick" /\ pressed # "none") => command' = pressed]_vars

\* a request that changed the devices of the network service has resolved,
\* and its handler has more to do before the App shows its components again
CommittedChange ==
    lastOp \in {"apply_create_ok", "apply_update_ok",
                "popover_create_ok", "popover_update_ok", "popover_delete_ok"}

ApplyOps ==
    {"apply_invalid", "apply_notconnected", "apply_nochange", "apply_started",
     "apply_create_ok", "apply_update_ok", "apply_failed", "apply_done",
     "apply_fetch_failed"}

RemoveOps ==
    {"remove_temp", "remove_invalid", "remove_notconnected", "remove_declined",
     "remove_sent", "remove_ok", "remove_failed"}

\* C38: while the API status is not 'connected', a step of handleApply or of
\* handleDeleteDevice sends no request and leaves the devices of the service
\* and both lists as they are (handleDeleteDevice of a device that was never
\* saved takes it out of the edited list and sends nothing); so the
\* placeholder devices that stand in after a failed fetch are never sent.
C38_NothingSentUnlessConnected ==
    [][(apiStatus # "connected" /\ lastOp' \in ApplyOps \cup RemoveOps)
          => /\ netLog' = <<>>
             /\ server' = server
             /\ originalDevices' = originalDevices
             /\ lastOp' # "remove_temp" => tempDevices' = tempDevices]_vars

\* the fetch failed and handleApply was called on the placeholder devices,
\* one of them renamed: it set its error and sent nothing
C38_Witness ==
    /\ apiStatus = "error"
    /\ lastOp = "apply_notconnected"
    /\ error = "apply_status"
    /\ originalDevices = defaultDevices
    /\ tempDevices # originalDevices
    /\ netLog = <<>>

\* load n is the newest load of a mounted loader and was not cancelled
NewestLoad(n) ==
    /\ mounted
    /\ loads = n
    /\ \E r \in Range(requests) : r.id = n /\ ~r.aborted

\* C39: a load that is not cancelled leaves the loading state: the step in
\* which fetchImage ends for the newest load of a mounted loader leaves
\* isLoading false, and from every state in which such a load is under way a
\* state is reached in which its response was handled and the loader is not
\* loading, or a newer load was started, or the loader was unmounted (which
\* cancels the load).
C39_LoadLeavesLoading ==
    /\ [][(mounted' /\ answered' # answered /\ lastReq' = loads')
             => ~isLoading']_vars
    /\ \A n \in 1..MaxLoads :
          NewestLoad(n) ~> \/ n \in answered /\ ~isLoading
                           \/ loads > n
                           \/ ~mounted

\* the newest load failed, and so did the fetch of the fallback image: the
\* loader shows the static image with its error and is not loading
C39_Witness ==
    /\ mounted
    /\ lastImg = "fallback_failed"
    /\ lastReq = loads
    /\ imgError = "load_failed"
    /\ ~isLoading

\* C40: after handleManualUp (a press-end or a pointer-leave) the direction
\* the App holds is null, whatever the selection is, and while no button is
\* held no direction is set.
C40_ReleaseClearsDirection ==
    /\ [][lastManual' \in {"up", "leave"} => manualDirection' = "null"]_vars
    /\ [](pressed = "none" => manualDirection = "null")

============================================================================
